---------------------------- MODULE Spec2Model ----------------------------
(***************************************************************************)
(* A model of the go-blog service layer: slug generation and uniqueness,  *)
(* the article life cycle, tag resolution, view counters and the ranking  *)
(* functions, over a relational store with soft deletes and unique        *)
(* indexes.                                                                *)
(*                                                                         *)
(* Text is modelled as a sequence of one-character strings, so that       *)
(* lower-casing, regular-expression replacement, trimming, truncation and *)
(* "%s-%d" formatting are computed and not assumed.                        *)
(***************************************************************************)
EXTENDS Integers, Sequences, FiniteSets, TLC

VARIABLES
    articles,   \* the articles table: a sequence of rows, row i has primary key i
    tags,       \* the tags table: a sequence of rows, row i has primary key i
    categories, \* the categories table: a sequence of rows, row i has primary key i
    likes,      \* the likes table: a sequence of rows, row i has primary key i
    now,        \* the wall clock read by time.Now(), in days
    call,       \* the request being served by a single-call specification
    ret,        \* the result of the last completed call
    pc,         \* position of each concurrent request
    loc         \* locals of each concurrent request

vars == <<articles, tags, categories, likes, now, call, ret, pc, loc>>

----------------------------------------------------------------------------
(* Bounds of the model *)

\* longest head and tail around the filler of a GenerateSlug input
MaxHead == 2
MaxTail == 2
\* shortest prefix lengths base, base-1 .. base-N tried from the low end
SmallPrefix == 3
\* how far past the last prefix the attempt limit allows (base-1 .. base-999)
\* the store's prefix may reach
PastLimit == 0

----------------------------------------------------------------------------
(* Text *)

LowerCh == {"a", "b"}
UpperCh == {"A"}
DigitCh == {"0", "1", "2", "3", "4", "5", "6", "7", "8", "9"}
Digits  == <<"0", "1", "2", "3", "4", "5", "6", "7", "8", "9">>

\* strings.ToLower on one character
ToLowerCh(c) == IF c = "A" THEN "a" ELSE c

ToLower(s) == [i \in 1..Len(s) |-> ToLowerCh(s[i])]

\* the character class [a-z0-9] of the slug regular expression
IsSlugAlnum(c) == c \in LowerCh \cup DigitCh

\* regexp [^a-z0-9]+ replaced by "-": every maximal run of characters outside
\* the class becomes one hyphen (the first character of a run is kept as the
\* hyphen, the rest of the run is dropped)
ReplaceRuns(s) ==
    LET marked == [i \in 1..Len(s) |->
                     [ch |-> s[i], first |-> (i = 1) \/ IsSlugAlnum(s[i - 1])]]
        Keep(m) == IsSlugAlnum(m.ch) \/ m.first
        kept == SelectSeq(marked, Keep)
    IN  [i \in 1..Len(kept) |-> IF IsSlugAlnum(kept[i].ch) THEN kept[i].ch ELSE "-"]

\* strings.Trim(s, "-")
RECURSIVE TrimLeftHyphen(_)
TrimLeftHyphen(s) ==
    IF s # <<>> /\ Head(s) = "-" THEN TrimLeftHyphen(Tail(s)) ELSE s

RECURSIVE TrimRightHyphen(_)
TrimRightHyphen(s) ==
    IF s # <<>> /\ s[Len(s)] = "-" THEN TrimRightHyphen(SubSeq(s, 1, Len(s) - 1)) ELSE s

TrimHyphens(s) == TrimRightHyphen(TrimLeftHyphen(s))

\* strings.TrimSuffix(s, "-"): removes at most one trailing hyphen
TrimSuffixHyphen(s) ==
    IF s # <<>> /\ s[Len(s)] = "-" THEN SubSeq(s, 1, Len(s) - 1) ELSE s

\* white space: the space and the tab
SpaceCh == {" ", "\t"}

\* strings.TrimSpace
RECURSIVE TrimLeftSpace(_)
TrimLeftSpace(s) ==
    IF s # <<>> /\ Head(s) \in SpaceCh THEN TrimLeftSpace(Tail(s)) ELSE s

RECURSIVE TrimRightSpace(_)
TrimRightSpace(s) ==
    IF s # <<>> /\ s[Len(s)] \in SpaceCh
    THEN TrimRightSpace(SubSeq(s, 1, Len(s) - 1))
    ELSE s

TrimSpace(s) == TrimRightSpace(TrimLeftSpace(s))

\* the %d verb of fmt.Sprintf for n >= 0
RECURSIVE Itoa(_)
Itoa(n) == IF n < 10 THEN <<Digits[n + 1]>> ELSE Itoa(n \div 10) \o <<Digits[(n % 10) + 1]>>

\* fmt.Sprintf("%s-%d", base, n)
SprintfSlug(base, n) == base \o <<"-">> \o Itoa(n)

\* c repeated n times
Repeat(c, n) == [i \in 1..n |-> c]

\* all sequences over S of length at most n
RECURSIVE SeqsUpTo(_, _)
SeqsUpTo(S, n) ==
    IF n = 0 THEN {<<>>}
    ELSE LET shorter == SeqsUpTo(S, n - 1)
         IN  shorter \cup {Append(s, c) : s \in shorter, c \in S}

----------------------------------------------------------------------------
(* utils.GenerateSlug *)

MaxSlugLen == 100

\* the cut at the length limit without the TrimSuffix that follows it
limitLength_NoSuffixTrim(slug) ==
    IF Len(slug) > MaxSlugLen THEN SubSeq(slug, 1, MaxSlugLen) ELSE slug

\* the "limit length" step: slug[:100], then strings.TrimSuffix(slug, "-")
limitLength(slug) ==
    IF Len(slug) > MaxSlugLen
    THEN TrimSuffixHyphen(SubSeq(slug, 1, MaxSlugLen))
    ELSE slug

GenerateSlug(text) == limitLength(TrimHyphens(ReplaceRuns(ToLower(text))))

----------------------------------------------------------------------------
(* The articles table and the persistence wrapper over it *)

NoTime == <<>>

\* models.Article as created by ArticleService.Create
NewArticle(title, slug, author, status, publishedAt) ==
    [title |-> title, slug |-> slug, content |-> <<"x">>, excerpt |-> <<>>,
     author |-> author, category |-> 0, tagIds |-> <<>>, status |-> status,
     publishedAt |-> publishedAt, viewCount |-> 0, likeCount |-> 0,
     commentCount |-> 0, deleted |-> FALSE]

\* rows a query sees: the ORM adds "deleted_at IS NULL" to every read
Visible(rows) == {i \in 1..Len(rows) : ~rows[i].deleted}

\* DB.GetByID: 0 stands for gorm.ErrRecordNotFound
GetByID(rows, id) == IF id \in Visible(rows) THEN id ELSE 0

\* DB.GetByField on "slug": 0 stands for gorm.ErrRecordNotFound
GetBySlug(rows, slug) ==
    IF \E i \in 1..Len(rows) : ~rows[i].deleted /\ rows[i].slug = slug
    THEN CHOOSE i \in 1..Len(rows) : ~rows[i].deleted /\ rows[i].slug = slug
    ELSE 0

\* the unique index on articles.slug: it covers every row of the table,
\* soft-deleted rows included, and rejects a second row with the same slug
SlugIndexRejects(rows, id, slug) ==
    \E i \in 1..Len(rows) : i # id /\ rows[i].slug = slug

\* Article.validatePublishedStatus, run by the BeforeCreate/BeforeUpdate hooks
validatePublishedStatus(row, t) ==
    IF row.status = "published" /\ row.publishedAt = NoTime
    THEN [row EXCEPT !.publishedAt = <<t>>]
    ELSE row

----------------------------------------------------------------------------
(* ArticleService.generateUniqueSlug *)

SlugAttemptLimit == 1000

\* the slug tried at the k-th lookup: the base first, then base-1, base-2, ...
Candidate(baseSlug, k) == IF k = 0 THEN baseSlug ELSE SprintfSlug(baseSlug, k)

\* The loop of generateUniqueSlug: it looks up Candidate(lo), Candidate(lo+1),
\* ... in this order and stops at the first one the lookup does not find.
\* FirstFree is the index it stops at, or -1 when every lookup in lo..hi
\* finds a row. The scan is split in halves (left half first, right half only
\* when the left is all taken) so that its depth stays logarithmic; the
\* lookups made, and their order, are those of the loop.
RECURSIVE FirstFree(_, _, _, _)
FirstFree(rows, baseSlug, lo, hi) ==
    IF lo = hi
    THEN IF GetBySlug(rows, Candidate(baseSlug, lo)) = 0 THEN lo ELSE -1
    ELSE LET mid == (lo + hi) \div 2
             left == FirstFree(rows, baseSlug, lo, mid)
         IN  IF left # -1 THEN left ELSE FirstFree(rows, baseSlug, mid + 1, hi)

\* After the lookup of Candidate(k) finds a row the counter becomes k + 2 and
\* the loop gives up once the counter exceeds the limit: the lookups made are
\* those of Candidate(0) .. Candidate(limit - 1).
\* the loop returning the candidate after the first free one
uniqueSlugFrom_OffByOne(baseSlug, k) ==
    IF baseSlug = <<>>
    THEN [err |-> "cannot generate slug from title", slug |-> <<>>]
    ELSE IF k = -1
    THEN [err |-> "unable to generate unique slug", slug |-> <<>>]
    ELSE [err |-> "", slug |-> Candidate(baseSlug, IF k = 0 THEN 0 ELSE k + 1)]

\* what generateUniqueSlug returns for the base slug and the index k at which
\* its loop stopped
uniqueSlugFrom(baseSlug, k) ==
    IF baseSlug = <<>>
    THEN [err |-> "cannot generate slug from title", slug |-> <<>>]
    ELSE IF k = -1
    THEN [err |-> "unable to generate unique slug", slug |-> <<>>]
    ELSE [err |-> "", slug |-> Candidate(baseSlug, k)]

\* the loop of generateUniqueSlug over the base slug
scanSlugs(baseSlug, rows) ==
    uniqueSlugFrom(baseSlug, FirstFree(rows, baseSlug, 0, SlugAttemptLimit - 1))

generateUniqueSlug(title, rows) == scanSlugs(GenerateSlug(title), rows)

----------------------------------------------------------------------------
(* The tags table and TagService.generateUniqueSlug *)

\* models.Tag
NewTag(name, slug) == [name |-> name, slug |-> slug, deleted |-> FALSE]

\* tagRepository.GetBySlug: 0 stands for gorm.ErrRecordNotFound
TagGetBySlug(rows, slug) ==
    IF \E i \in 1..Len(rows) : ~rows[i].deleted /\ rows[i].slug = slug
    THEN CHOOSE i \in 1..Len(rows) : ~rows[i].deleted /\ rows[i].slug = slug
    ELSE 0

\* tagRepository.GetByName: 0 stands for gorm.ErrRecordNotFound
TagGetByName(rows, name) ==
    IF \E i \in 1..Len(rows) : ~rows[i].deleted /\ rows[i].name = name
    THEN CHOOSE i \in 1..Len(rows) : ~rows[i].deleted /\ rows[i].name = name
    ELSE 0

\* the loop of TagService.generateUniqueSlug, scanned as FirstFree scans
RECURSIVE TagFirstFree(_, _, _, _)
TagFirstFree(rows, baseSlug, lo, hi) ==
    IF lo = hi
    THEN IF TagGetBySlug(rows, Candidate(baseSlug, lo)) = 0 THEN lo ELSE -1
    ELSE LET mid == (lo + hi) \div 2
             left == TagFirstFree(rows, baseSlug, lo, mid)
         IN  IF left # -1 THEN left ELSE TagFirstFree(rows, baseSlug, mid + 1, hi)

TagSlugAttemptLimit == 1000

\* what TagService.generateUniqueSlug returns for the base slug and the index
\* k at which its loop stopped
tagUniqueSlugFrom(baseSlug, k) ==
    IF baseSlug = <<>>
    THEN [err |-> "cannot generate slug from name", slug |-> <<>>]
    ELSE IF k = -1
    THEN [err |-> "unable to generate unique slug", slug |-> <<>>]
    ELSE [err |-> "", slug |-> Candidate(baseSlug, k)]

tagScanSlugs(baseSlug, rows) ==
    tagUniqueSlugFrom(baseSlug, TagFirstFree(rows, baseSlug, 0, TagSlugAttemptLimit - 1))

tagGenerateUniqueSlug(name, rows) == tagScanSlugs(GenerateSlug(name), rows)

----------------------------------------------------------------------------
(* Idle values of the variables a specification does not use *)

NoCall == [op |-> "none"]
NoRet  == [op |-> "none", err |-> ""]
NoProcs == <<>>

----------------------------------------------------------------------------
(* SpecSlug: the slug functions applied to drawn inputs *)

SlugInputCh == {"a", "A", "-", " "}

\* inputs of GenerateSlug: a short head, a filler that reaches the length
\* limit, a short tail
FillerLens == {0} \cup ((MaxSlugLen - 3)..(MaxSlugLen + 1))

SlugTexts ==
    {h \o Repeat(c, n) \o t :
        h \in SeqsUpTo(SlugInputCh, MaxHead), c \in SlugInputCh,
        n \in FillerLens, t \in SeqsUpTo(SlugInputCh, MaxTail)}

\* stores for generateUniqueSlug: the base and base-1 .. base-n are taken
PrefixLens ==
    (0..SmallPrefix) \cup ((SlugAttemptLimit - 2)..(SlugAttemptLimit - 1 + PastLimit))

UniqueTitles == {<<"a">>, <<"A", " ", "b">>}

\* the rows an article table holds after n + 1 creations of the same title,
\* plus (when beyond) one further row two steps past the prefix
PrefixArticles(title, n, beyond) ==
    LET base == GenerateSlug(title)
        prefix == [i \in 1..(n + 1) |->
                     NewArticle(title, Candidate(base, i - 1), 1, "draft", NoTime)]
    IN  IF beyond
        THEN Append(prefix, NewArticle(title, Candidate(base, n + 2), 1, "draft", NoTime))
        ELSE prefix

PrefixTags(name, n, beyond) ==
    LET base == GenerateSlug(name)
        prefix == [i \in 1..(n + 1) |-> NewTag(Candidate(base, i - 1), Candidate(base, i - 1))]
    IN  IF beyond
        THEN Append(prefix, NewTag(Candidate(base, n + 2), Candidate(base, n + 2)))
        ELSE prefix

InitSlug ==
    /\ now = 0
    /\ categories = <<>>
    /\ likes = <<>>
    /\ ret = NoRet
    /\ pc = NoProcs
    /\ loc = NoProcs
    /\ \/ /\ call \in {[op |-> "GenerateSlug", text |-> x] : x \in SlugTexts}
          /\ articles = <<>>
          /\ tags = <<>>
       \/ \E title \in UniqueTitles, n \in PrefixLens, beyond \in BOOLEAN :
            /\ beyond => n <= SmallPrefix
            /\ call = [op |-> "ArticleService.generateUniqueSlug", text |-> title, n |-> n]
            /\ articles = PrefixArticles(title, n, beyond)
            /\ tags = <<>>
       \/ \E name \in UniqueTitles, n \in PrefixLens, beyond \in BOOLEAN :
            /\ beyond => n <= SmallPrefix
            /\ call = [op |-> "TagService.generateUniqueSlug", text |-> name, n |-> n]
            /\ articles = <<>>
            /\ tags = PrefixTags(name, n, beyond)

CallGenerateSlug ==
    /\ call.op = "GenerateSlug"
    /\ ret.op = "none"
    /\ ret' = [op |-> call.op, err |-> "", slug |-> GenerateSlug(call.text)]
    /\ UNCHANGED <<likes, articles, tags, categories, now, call, pc, loc>>

CallArticleUniqueSlug ==
    /\ call.op = "ArticleService.generateUniqueSlug"
    /\ ret.op = "none"
    /\ LET r == generateUniqueSlug(call.text, articles)
       IN  ret' = [op |-> call.op, err |-> r.err, slug |-> r.slug]
    /\ UNCHANGED <<likes, articles, tags, categories, now, call, pc, loc>>

CallTagUniqueSlug ==
    /\ call.op = "TagService.generateUniqueSlug"
    /\ ret.op = "none"
    /\ LET r == tagGenerateUniqueSlug(call.text, tags)
       IN  ret' = [op |-> call.op, err |-> r.err, slug |-> r.slug]
    /\ UNCHANGED <<likes, articles, tags, categories, now, call, pc, loc>>

NextSlug == CallGenerateSlug \/ CallArticleUniqueSlug \/ CallTagUniqueSlug

SpecSlug == InitSlug /\ [][NextSlug]_vars

----------------------------------------------------------------------------
(* Claims on the slug functions *)

SlugCh == LowerCh \cup DigitCh \cup {"-"}

\* the store holds the base and base-1 .. base-n, and does not hold base-(n+1)
ArticlePrefixTaken(title, n) ==
    /\ \A k \in 0..n : GetBySlug(articles, Candidate(GenerateSlug(title), k)) # 0
    /\ GetBySlug(articles, Candidate(GenerateSlug(title), n + 1)) = 0

TagPrefixTaken(name, n) ==
    /\ \A k \in 0..n : TagGetBySlug(tags, Candidate(GenerateSlug(name), k)) # 0
    /\ TagGetBySlug(tags, Candidate(GenerateSlug(name), n + 1)) = 0

UniqueSlugCallDone ==
    ret.op \in {"ArticleService.generateUniqueSlug", "TagService.generateUniqueSlug"}

PrefixTaken ==
    IF ret.op = "ArticleService.generateUniqueSlug"
    THEN ArticlePrefixTaken(call.text, call.n)
    ELSE TagPrefixTaken(call.text, call.n)

\* C2 as stated: whenever the store holds base and base-1 .. base-N and not
\* base-(N+1), for any N >= 0, generateUniqueSlug returns base-(N+1).
C2_AnyPrefixReturnsNext ==
    (UniqueSlugCallDone /\ PrefixTaken) =>
        /\ ret.err = ""
        /\ ret.slug = Candidate(GenerateSlug(call.text), call.n + 1)

\* C2 amended: the same for 0 <= N <= 998 (base-999 is the last slug the
\* loop can return); from N = 999 on the call ends with the "unable to
\* generate unique slug" error.
C2_PrefixWithinLimitReturnsNext ==
    (UniqueSlugCallDone /\ PrefixTaken) =>
        IF call.n + 1 <= SlugAttemptLimit - 1
        THEN /\ ret.err = ""
             /\ ret.slug = Candidate(GenerateSlug(call.text), call.n + 1)
        ELSE ret.err = "unable to generate unique slug"

C2_Witness ==
    /\ UniqueSlugCallDone
    /\ PrefixTaken
    /\ call.n = SlugAttemptLimit - 2
    /\ ret.slug = Candidate(GenerateSlug(call.text), SlugAttemptLimit - 1)

\* C7: the output of GenerateSlug holds only a-z, 0-9 and '-', neither starts
\* nor ends with '-', and is at most 100 characters long.
C7_SlugWellFormed ==
    ret.op = "GenerateSlug" =>
        /\ \A i \in 1..Len(ret.slug) : ret.slug[i] \in SlugCh
        /\ ret.slug # <<>> => (ret.slug[1] # "-" /\ ret.slug[Len(ret.slug)] # "-")
        /\ Len(ret.slug) <= 100

\* a slug cut at 100 characters where the 100th character was a hyphen
C7_Witness ==
    /\ ret.op = "GenerateSlug"
    /\ LET full == TrimHyphens(ReplaceRuns(ToLower(call.text)))
       IN  Len(full) > 100 /\ full[100] = "-"
    /\ Len(ret.slug) = 99

----------------------------------------------------------------------------
(* TagService: Create, FindOrCreateByName, ProcessTagNames *)

MaxTagNameLen == 50

\* the characters Tag.validateName accepts
IsTagNameCh(c) == c \in LowerCh \cup UpperCh \cup DigitCh \cup {"-", "_", " "}

\* Tag.Validate, run by the BeforeCreate hook: "" when the tag is valid
TagValidate(tag) ==
    IF tag.name = <<>> \/ Len(tag.name) > MaxTagNameLen THEN "Name is invalid"
    ELSE IF tag.slug = <<>> \/ Len(tag.slug) > MaxTagNameLen
            \/ \E i \in 1..Len(tag.slug) : tag.slug[i] \notin LowerCh \cup DigitCh \cup {"-"}
    THEN "Slug is invalid"
    ELSE IF TrimSpace(tag.name) # tag.name
    THEN "name cannot have leading or trailing spaces"
    ELSE IF \E i \in 1..Len(tag.name) : ~IsTagNameCh(tag.name[i])
    THEN "tag name can only contain letters, numbers, spaces, hyphens, and underscores"
    ELSE ""

\* tagRepository.Create: the hook, then the insert under the unique indexes
\* on tags.name and tags.slug (which cover every row of the table)
TagRepoCreate(rows, tag) ==
    IF TagValidate(tag) # "" THEN [err |-> TagValidate(tag), rows |-> rows]
    ELSE IF \E i \in 1..Len(rows) : rows[i].name = tag.name \/ rows[i].slug = tag.slug
    THEN [err |-> "duplicate entry", rows |-> rows]
    ELSE [err |-> "", rows |-> Append(rows, tag)]

\* TagService.Create: [err, id, rows]
\* (the results of the calls a handler makes are handed on as parameters:
\* tagName is the trimmed name, gen the result of generateUniqueSlug, ins the
\* result of the insert)
tagCreated(rows, ins) ==
    IF ins.err # ""
    THEN [err |-> "failed to create tag", id |-> 0, rows |-> rows]
    ELSE [err |-> "", id |-> Len(ins.rows), rows |-> ins.rows]

tagCreateWithSlug(tagName, rows, gen) ==
    IF gen.err # ""
    THEN [err |-> "failed to generate slug", id |-> 0, rows |-> rows]
    ELSE tagCreated(rows, TagRepoCreate(rows, NewTag(tagName, gen.slug)))

tagCreateNamed(name, tagName, rows) ==
    IF tagName = <<>>
    THEN [err |-> "tag name is required", id |-> 0, rows |-> rows]
    ELSE IF Len(name) > MaxTagNameLen
    THEN [err |-> "tag name must be less than 50 characters", id |-> 0, rows |-> rows]
    ELSE IF TagGetByName(rows, tagName) # 0
    THEN [err |-> "tag already exists", id |-> 0, rows |-> rows]
    ELSE tagCreateWithSlug(tagName, rows, tagGenerateUniqueSlug(tagName, rows))

TagCreate(name, rows) == tagCreateNamed(name, TrimSpace(name), rows)

\* TagService.FindOrCreateByName: [err, id, rows]; failing holds the names
\* for which tagRepo.GetByName returns a database error
findOrCreateNamed(tagName, rows, failing) ==
    IF tagName = <<>>
    THEN [err |-> "tag name cannot be empty", id |-> 0, rows |-> rows]
    ELSE IF tagName \in failing
    THEN [err |-> "error checking existing tag", id |-> 0, rows |-> rows]
    ELSE IF TagGetByName(rows, tagName) # 0
    THEN [err |-> "", id |-> TagGetByName(rows, tagName), rows |-> rows]
    ELSE TagCreate(tagName, rows)

FindOrCreateByName(name, rows, failing) == findOrCreateNamed(TrimSpace(name), rows, failing)

\* the processedNames map of ProcessTagNames
AlreadyProcessed_Never(processedNames, tagName) == FALSE

AlreadyProcessed(processedNames, tagName) == tagName \in processedNames

\* the loop of ProcessTagNames from position i on; processTag is the body of
\* the loop for the trimmed name, tagFound its end once FindOrCreateByName
\* has returned
RECURSIVE ProcessTagLoop(_, _, _, _, _, _)

\* ProcessTagNames going on to the next name after a failed name
tagFound_SkipFailed(tagNames, i, processedNames, list, tagName, found, failing) ==
    IF found.err # ""
    THEN ProcessTagLoop(tagNames, i + 1, processedNames \cup {tagName}, list, found.rows,
                        failing)
    ELSE ProcessTagLoop(tagNames, i + 1, processedNames \cup {tagName},
                        Append(list, found.id), found.rows, failing)

\* the error is "failed to process tag '<tag>': <cause>"
tagFound(tagNames, i, processedNames, list, tagName, found, failing) ==
    IF found.err # ""
    THEN [err |-> "failed to process tag", tag |-> tagName, cause |-> found.err,
          list |-> <<>>, rows |-> found.rows]
    ELSE ProcessTagLoop(tagNames, i + 1, processedNames \cup {tagName},
                        Append(list, found.id), found.rows, failing)

processTag(tagNames, i, processedNames, list, rows, tagName, failing) ==
    IF tagName = <<>>
    THEN ProcessTagLoop(tagNames, i + 1, processedNames, list, rows, failing)
    ELSE IF AlreadyProcessed(processedNames, tagName)
    THEN ProcessTagLoop(tagNames, i + 1, processedNames, list, rows, failing)
    ELSE tagFound(tagNames, i, processedNames, list, tagName,
                  FindOrCreateByName(tagName, rows, failing), failing)

ProcessTagLoop(tagNames, i, processedNames, list, rows, failing) ==
    IF i > Len(tagNames)
    THEN [err |-> "", tag |-> <<>>, cause |-> "", list |-> list, rows |-> rows]
    ELSE processTag(tagNames, i, processedNames, list, rows, TrimSpace(tagNames[i]), failing)

\* TagService.ProcessTagNames while the lookups of the names in failing fail
ProcessTagNamesWith(tagNames, rows, failing) ==
    ProcessTagLoop(tagNames, 1, {}, <<>>, rows, failing)

\* TagService.ProcessTagNames: [err, tag, cause, list of tag ids, rows]
ProcessTagNames(tagNames, rows) == ProcessTagNamesWith(tagNames, rows, {})

----------------------------------------------------------------------------
(* SpecTags: batches of tag names resolved one after another *)

\* longest batch of names, and most rows of the tags table
MaxBatch == 2
MaxTags == 3

BatchNames == {<<"a">>, <<"a", " ">>, <<"A">>, <<"b">>, <<" ">>}

InitTags ==
    /\ articles = <<>>
    /\ tags = <<>>
    /\ categories = <<>>
    /\ likes = <<>>
    /\ now = 0
    /\ call = NoCall
    /\ ret = NoRet
    /\ pc = NoProcs
    /\ loc = NoProcs

CallProcessTagNames ==
    \E batch \in SeqsUpTo(BatchNames, MaxBatch) :
        LET r == ProcessTagNames(batch, tags)
        IN  /\ Len(r.rows) <= MaxTags
            /\ call' = [op |-> "ProcessTagNames", names |-> batch, before |-> Len(tags)]
            /\ ret' = [op |-> "ProcessTagNames", err |-> r.err, list |-> r.list]
            /\ tags' = r.rows
            /\ UNCHANGED <<likes, articles, categories, now, pc, loc>>

NextTags == CallProcessTagNames

SpecTags == InitTags /\ [][NextTags]_vars

\* the non-empty trimmed names of the batch of the last call
BatchTrimmed == {TrimSpace(call.names[i]) : i \in 1..Len(call.names)} \ {<<>>}

\* C8: a name given twice or more in one batch (after trimming) is resolved
\* to exactly one entry of the result, and at most one tag row is created
\* for it by the call.
C8_OneTagPerName ==
    (ret.op = "ProcessTagNames" /\ ret.err = "") =>
        \A name \in BatchTrimmed :
            /\ Cardinality({i \in 1..Len(ret.list) : tags[ret.list[i]].name = name}) = 1
            /\ Cardinality({j \in (call.before + 1)..Len(tags) : tags[j].name = name}) <= 1

\* a batch naming the same tag twice, which the call created
C8_Witness ==
    /\ ret.op = "ProcessTagNames"
    /\ ret.err = ""
    /\ \E i, j \in 1..Len(call.names) :
          /\ i # j
          /\ TrimSpace(call.names[i]) = TrimSpace(call.names[j])
          /\ call.names[i] # call.names[j]
          /\ \E k \in (call.before + 1)..Len(tags) : tags[k].name = TrimSpace(call.names[i])
    /\ Len(ret.list) = 1

----------------------------------------------------------------------------
(* The article repository: hooks, insert, save, soft delete, counters *)

\* the registered users (userRepository.GetByID finds exactly these)
Users == {1, 2}

\* categoryRepository.GetByID: 0 stands for gorm.ErrRecordNotFound
CatGetByID(rows, id) == IF id \in 1..Len(rows) /\ ~rows[id].deleted THEN id ELSE 0

\* Article.Validate, run by the BeforeCreate and BeforeUpdate hooks: the
\* struct tags and validateTitle/validateContent reject the row, and
\* validatePublishedStatus fills in a missing publication time
ArticleValidate(row, t) ==
    IF row.title = <<>> \/ TrimSpace(row.title) # row.title
    THEN [err |-> "title is invalid", row |-> row]
    ELSE IF row.slug = <<>>
            \/ \E i \in 1..Len(row.slug) : row.slug[i] \notin LowerCh \cup DigitCh \cup {"-"}
    THEN [err |-> "Slug is invalid", row |-> row]
    ELSE IF TrimSpace(row.content) = <<>>
    THEN [err |-> "content cannot be empty or contain only whitespace", row |-> row]
    ELSE [err |-> "", row |-> validatePublishedStatus(row, t)]

\* articleRepository.Create without the unique index on slug
RepoCreate_NoUniqueIndex(rows, row, t) ==
    LET v == ArticleValidate(row, t)
    IN  IF v.err # "" THEN [err |-> v.err, rows |-> rows]
        ELSE [err |-> "", rows |-> Append(rows, v.row)]

\* articleRepository.Create: the hook, then the insert under the unique index
RepoCreate(rows, row, t) ==
    LET v == ArticleValidate(row, t)
    IN  IF v.err # "" THEN [err |-> v.err, rows |-> rows]
        ELSE IF SlugIndexRejects(rows, 0, v.row.slug)
        THEN [err |-> "duplicate slug", rows |-> rows]
        ELSE [err |-> "", rows |-> Append(rows, v.row)]

\* articleRepository.Update writing the status column only
RepoUpdate_StatusOnly(rows, id, row, t) ==
    [err |-> "", rows |-> [rows EXCEPT ![id].status = row.status]]

\* articleRepository.Update (DB.Save): the hook, then every column of the row
\* is written under the unique index
RepoUpdate(rows, id, row, t) ==
    LET v == ArticleValidate(row, t)
    IN  IF v.err # "" THEN [err |-> v.err, rows |-> rows]
        ELSE IF SlugIndexRejects(rows, id, v.row.slug)
        THEN [err |-> "duplicate slug", rows |-> rows]
        ELSE [err |-> "", rows |-> [rows EXCEPT ![id] = v.row]]

\* articleRepository.Delete marking the row and releasing nothing else
\* (DB.Delete on a model with DeletedAt is a soft delete: the row stays)
RepoDelete(rows, id) ==
    [i \in 1..Len(rows) |-> IF i = id THEN [rows[i] EXCEPT !.deleted = TRUE] ELSE rows[i]]

\* DB.Increment writing the value instead of adding it
Increment_Assign(rows, id, value) ==
    [i \in 1..Len(rows) |->
        IF i = id /\ ~rows[i].deleted
        THEN [rows[i] EXCEPT !.viewCount = value]
        ELSE rows[i]]

\* DB.Increment on view_count: one UPDATE ... SET view_count = view_count + ?
\* WHERE id = ? (and deleted_at IS NULL); no row matched is no error
Increment(rows, id, value) ==
    [i \in 1..Len(rows) |->
        IF i = id /\ ~rows[i].deleted
        THEN [rows[i] EXCEPT !.viewCount = @ + value]
        ELSE rows[i]]

----------------------------------------------------------------------------
(* ArticleService *)

MaxTitleLen == 255
MaxExcerptLen == 500

\* requests: category -1 is a nil CategoryID; hasTags is TagNames != nil
CreateRequest(title, status) ==
    [title |-> title, content |-> <<"x">>, excerpt |-> <<>>, category |-> -1,
     tagNames |-> <<>>, status |-> status]

UpdateRequest(title, status) ==
    [title |-> title, content |-> <<>>, excerpt |-> <<>>, category |-> -1,
     hasTags |-> FALSE, tagNames |-> <<>>, status |-> status]

\* ArticleService.validateCreateRequest: "" when the request is valid
validateCreateRequest(req) ==
    IF TrimSpace(req.title) = <<>> THEN "title is required"
    ELSE IF Len(req.title) > MaxTitleLen THEN "title must be less than 255 characters"
    ELSE IF TrimSpace(req.content) = <<>> THEN "content is required"
    ELSE IF Len(req.excerpt) > MaxExcerptLen THEN "excerpt must be less than 500 characters"
    ELSE IF req.status \notin {"", "draft", "published"}
    THEN "status must be either 'draft' or 'published'"
    ELSE ""

\* ArticleService.validateUpdateRequest: "" when the request is valid
validateUpdateRequest(req) ==
    IF req.title # <<>> /\ TrimSpace(req.title) = <<>> THEN "title cannot be empty"
    ELSE IF Len(req.title) > MaxTitleLen THEN "title must be less than 255 characters"
    ELSE IF req.content # <<>> /\ TrimSpace(req.content) = <<>> THEN "content cannot be empty"
    ELSE IF Len(req.excerpt) > MaxExcerptLen THEN "excerpt must be less than 500 characters"
    ELSE IF req.status \notin {"", "draft", "published", "archived"}
    THEN "status must be one of: draft, published, archived"
    ELSE ""

\* what a handler hands back: the error, the slug generateUniqueSlug returned
\* (when it ran), the tables as the handler left them
Outcome(err, cause, slug, arts, tgs) ==
    [err |-> err, cause |-> cause, slug |-> slug, articles |-> arts, tags |-> tgs]

\* ArticleService.Create. The results of the calls it makes are handed on as
\* parameters: gen is what generateUniqueSlug returned, proc what
\* processTagNames returned, ins what articleRepo.Create returned.
createStatus(req) == IF req.status # "" THEN req.status ELSE "draft"

createInserted(arts, gen, proc, ins) ==
    IF ins.err # ""
    THEN Outcome("failed to create article", ins.err, gen.slug, arts, proc.rows)
    ELSE Outcome("", "", gen.slug, ins.rows, proc.rows)

createArticle(authorID, req, gen, proc, t) ==
    [NewArticle(TrimSpace(req.title), gen.slug, authorID, createStatus(req),
                IF createStatus(req) = "published" THEN <<t>> ELSE NoTime)
     EXCEPT !.content = TrimSpace(req.content),
            !.excerpt = TrimSpace(req.excerpt),
            !.category = IF req.category # -1 THEN req.category ELSE 0,
            !.tagIds = proc.list]

createWithTags(authorID, req, arts, t, gen, proc) ==
    IF proc.err # ""
    THEN Outcome("failed to process tags", proc.err, gen.slug, arts, proc.rows)
    ELSE createInserted(arts, gen, proc,
                        RepoCreate(arts, createArticle(authorID, req, gen, proc, t), t))

createWithSlug(authorID, req, arts, tgs, cats, t, gen) ==
    IF gen.err # ""
    THEN Outcome("failed to generate slug", gen.err, <<>>, arts, tgs)
    ELSE IF req.category # -1 /\ CatGetByID(cats, req.category) = 0
    THEN Outcome("category not found", "", gen.slug, arts, tgs)
    ELSE createWithTags(authorID, req, arts, t, gen,
                        IF Len(req.tagNames) > 0
                        THEN ProcessTagNames(req.tagNames, tgs)
                        ELSE [err |-> "", list |-> <<>>, rows |-> tgs])

Create(authorID, req, arts, tgs, cats, t) ==
    IF validateCreateRequest(req) # ""
    THEN Outcome(validateCreateRequest(req), "", <<>>, arts, tgs)
    ELSE IF authorID \notin Users
    THEN Outcome("author not found", "", <<>>, arts, tgs)
    ELSE createWithSlug(authorID, req, arts, tgs, cats, t,
                        generateUniqueSlug(req.title, arts))

\* ArticleService.Update: the "if" blocks that set updated
titleChanged(old, req) == req.title # <<>> /\ req.title # old.title

contentChanged(old, req) == req.content # <<>> /\ req.content # old.content

excerptChanged(old, req) == req.excerpt # old.excerpt

categoryChanged(old, req) ==
    /\ req.category # -1
    /\ \/ old.category = 0 /\ req.category # 0
       \/ old.category # 0 /\ old.category # req.category

statusChanged(old, req) == req.status # "" /\ old.status # req.status

updated(old, req) ==
    \/ titleChanged(old, req)
    \/ contentChanged(old, req)
    \/ excerptChanged(old, req)
    \/ categoryChanged(old, req)
    \/ statusChanged(old, req)
    \/ req.hasTags

\* the article as Update has changed it in memory when it reaches the save
updateArticle(old, req, gen, proc, t) ==
    [old EXCEPT
        !.title = IF titleChanged(old, req) THEN TrimSpace(req.title) ELSE @,
        !.slug = IF titleChanged(old, req) THEN gen.slug ELSE @,
        !.content = IF contentChanged(old, req) THEN TrimSpace(req.content) ELSE @,
        !.excerpt = IF excerptChanged(old, req) THEN TrimSpace(req.excerpt) ELSE @,
        !.category = IF categoryChanged(old, req) THEN req.category ELSE @,
        !.status = IF statusChanged(old, req) THEN req.status ELSE @,
        !.publishedAt = IF statusChanged(old, req) /\ req.status = "published"
                           /\ old.status # "published" /\ old.publishedAt = NoTime
                        THEN <<t>> ELSE @,
        !.tagIds = proc.list]

updateSlug(old, req, gen) == IF titleChanged(old, req) THEN gen.slug ELSE <<>>

updateSaved(arts, slug, proc, sav) ==
    IF sav.err # ""
    THEN Outcome("failed to update article", sav.err, slug, arts, proc.rows)
    ELSE Outcome("", "", slug, sav.rows, proc.rows)

updateWithTags(id, old, req, arts, tgs, t, gen, proc) ==
    IF proc.err # ""
    THEN Outcome("failed to process tags", proc.err, updateSlug(old, req, gen),
                 arts, proc.rows)
    ELSE IF ~updated(old, req)
    THEN Outcome("", "", <<>>, arts, tgs)
    ELSE updateSaved(arts, updateSlug(old, req, gen), proc,
                     RepoUpdate(arts, id, updateArticle(old, req, gen, proc, t), t))

updateWithSlug(id, old, req, arts, tgs, cats, t, gen) ==
    IF titleChanged(old, req) /\ gen.err # ""
    THEN Outcome("failed to generate slug", gen.err, <<>>, arts, tgs)
    ELSE IF categoryChanged(old, req) /\ req.category # 0
            /\ CatGetByID(cats, req.category) = 0
    THEN Outcome("category not found", "", updateSlug(old, req, gen), arts, tgs)
    ELSE updateWithTags(id, old, req, arts, tgs, t, gen,
                        IF req.hasTags
                        THEN ProcessTagNames(req.tagNames, tgs)
                        ELSE [err |-> "", list |-> old.tagIds, rows |-> tgs])

Update(id, authorID, req, arts, tgs, cats, t) ==
    IF validateUpdateRequest(req) # ""
    THEN Outcome(validateUpdateRequest(req), "", <<>>, arts, tgs)
    ELSE IF GetByID(arts, id) = 0
    THEN Outcome("article not found", "", <<>>, arts, tgs)
    ELSE IF arts[id].author # authorID
    THEN Outcome("unauthorized: you can only edit your own articles", "", <<>>, arts, tgs)
    ELSE updateWithSlug(id, arts[id], req, arts, tgs, cats, t,
                        generateUniqueSlug(TrimSpace(req.title), arts))

\* ArticleService.Delete without the check of the author
Delete_NoOwnerCheck(id, authorID, arts, tgs) ==
    IF GetByID(arts, id) = 0
    THEN Outcome("article not found", "", <<>>, arts, tgs)
    ELSE Outcome("", "", <<>>, RepoDelete(arts, id), tgs)

\* ArticleService.Delete
Delete(id, authorID, arts, tgs) ==
    IF GetByID(arts, id) = 0
    THEN Outcome("article not found", "", <<>>, arts, tgs)
    ELSE IF arts[id].author # authorID
    THEN Outcome("unauthorized: you can only delete your own articles", "", <<>>, arts, tgs)
    ELSE Outcome("", "", <<>>, RepoDelete(arts, id), tgs)

\* the article as changeStatus has changed it, stamping every publication
statusArticle_AlwaysStamp(old, status, t) ==
    [old EXCEPT !.status = status,
                !.publishedAt = IF status = "published" THEN <<t>> ELSE @]

\* the article as changeStatus has changed it in memory when it reaches the
\* save: the new status, and the time of a first publication
statusArticle(old, status, t) ==
    [old EXCEPT !.status = status,
                !.publishedAt = IF status = "published" /\ old.publishedAt = NoTime
                                THEN <<t>> ELSE @]

statusSaved(arts, tgs, sav) ==
    IF sav.err # ""
    THEN Outcome("failed to update article status", sav.err, <<>>, arts, tgs)
    ELSE Outcome("", "", <<>>, sav.rows, tgs)

\* ArticleService.changeStatus, behind Publish, Unpublish and Archive
changeStatus(id, authorID, status, arts, tgs, t) ==
    IF GetByID(arts, id) = 0
    THEN Outcome("article not found", "", <<>>, arts, tgs)
    ELSE IF arts[id].author # authorID
    THEN Outcome("unauthorized: you can only modify your own articles", "", <<>>, arts, tgs)
    ELSE IF arts[id].status = status
    THEN Outcome("", "", <<>>, arts, tgs)
    ELSE statusSaved(arts, tgs,
                     RepoUpdate(arts, id, statusArticle(arts[id], status, t), t))

\* ArticleService.IncrementViewCount
IncrementViewCount(id, arts) == Increment(arts, id, 1)

----------------------------------------------------------------------------
(* Spec: a sequential history of Create, Update (title change) and Delete *)

\* most rows of the articles table
MaxArticles == 2

Titles == {<<"a">>, <<"A">>, <<"a", " ", "1">>}

Init ==
    /\ articles = <<>>
    /\ tags = <<>>
    /\ categories = <<>>
    /\ likes = <<>>
    /\ now = 0
    /\ call = NoCall
    /\ ret = NoRet
    /\ pc = NoProcs
    /\ loc = NoProcs

Returned(op, o) == [op |-> op, err |-> o.err, cause |-> o.cause, slug |-> o.slug]

DoCreate ==
    \E authorID \in Users, title \in Titles :
        LET o == Create(authorID, CreateRequest(title, ""), articles, tags, categories, now)
        IN  /\ Len(articles) < MaxArticles
            /\ articles' = o.articles
            /\ tags' = o.tags
            /\ ret' = Returned("Create", o)
            /\ UNCHANGED <<likes, categories, now, call, pc, loc>>

DoUpdateTitle ==
    \E id \in 1..Len(articles), authorID \in Users, title \in Titles :
        LET o == Update(id, authorID, UpdateRequest(title, ""), articles, tags, categories, now)
        IN  /\ articles' = o.articles
            /\ tags' = o.tags
            /\ ret' = Returned("Update", o)
            /\ UNCHANGED <<likes, categories, now, call, pc, loc>>

DoDelete ==
    \E id \in 1..Len(articles), authorID \in Users :
        LET o == Delete(id, authorID, articles, tags)
        IN  /\ articles' = o.articles
            /\ tags' = o.tags
            /\ ret' = Returned("Delete", o)
            /\ UNCHANGED <<likes, categories, now, call, pc, loc>>

Next == DoCreate \/ DoUpdateTitle \/ DoDelete

Spec == Init /\ [][Next]_vars

\* C1: in a sequential history of Create, Update (title change) and Delete,
\* the slug generateUniqueSlug returns never collides with a slug the unique
\* index holds: no insert or update is rejected as a duplicate slug.
C1_NeverDuplicateSlug ==
    ret.op \in {"Create", "Update"} => ret.cause # "duplicate slug"

----------------------------------------------------------------------------
(* SpecStatus: the life cycle of articles under Create, Update, Publish,   *)
(* Unpublish and Archive, with the clock advancing between calls           *)

\* most rows of the articles table, and the last day the clock reaches
MaxStatusArticles == 1
MaxNow == 1

Publish(id, authorID, arts, tgs, t) == changeStatus(id, authorID, "published", arts, tgs, t)

Unpublish(id, authorID, arts, tgs, t) == changeStatus(id, authorID, "draft", arts, tgs, t)

Archive(id, authorID, arts, tgs, t) == changeStatus(id, authorID, "archived", arts, tgs, t)

InitStatus ==
    /\ articles = <<>>
    /\ tags = <<>>
    /\ categories = <<>>
    /\ likes = <<>>
    /\ now = 0
    /\ call = NoCall
    /\ ret = NoRet
    /\ pc = NoProcs
    /\ loc = NoProcs

\* the request served, with the status the article had when it arrived
Request(op, id, status) ==
    [op |-> op, id |-> id, status |-> status,
     was |-> IF id \in 1..Len(articles) THEN articles[id].status ELSE ""]

StatusCreate ==
    \E status \in {"", "draft", "published"} :
        \E o \in {Create(1, CreateRequest(<<"a">>, status), articles, tags, categories, now)} :
            /\ Len(articles) < MaxStatusArticles
            /\ articles' = o.articles
            /\ tags' = o.tags
            /\ call' = Request("Create", 0, status)
            /\ ret' = Returned("Create", o)
            /\ UNCHANGED <<likes, categories, now, pc, loc>>

StatusUpdate ==
    \E id \in 1..Len(articles), authorID \in Users,
       title \in {<<>>, <<"b">>}, status \in {"", "draft", "published", "archived"} :
        \E o \in {Update(id, authorID, UpdateRequest(title, status),
                         articles, tags, categories, now)} :
            /\ articles' = o.articles
            /\ tags' = o.tags
            /\ call' = Request("Update", id, status)
            /\ ret' = Returned("Update", o)
            /\ UNCHANGED <<likes, categories, now, pc, loc>>

StatusPublish ==
    \E id \in 1..Len(articles), authorID \in Users :
        \E o \in {Publish(id, authorID, articles, tags, now)} :
            /\ articles' = o.articles
            /\ tags' = o.tags
            /\ call' = Request("Publish", id, "published")
            /\ ret' = Returned("Publish", o)
            /\ UNCHANGED <<likes, categories, now, pc, loc>>

StatusUnpublish ==
    \E id \in 1..Len(articles), authorID \in Users :
        \E o \in {Unpublish(id, authorID, articles, tags, now)} :
            /\ articles' = o.articles
            /\ tags' = o.tags
            /\ call' = Request("Unpublish", id, "draft")
            /\ ret' = Returned("Unpublish", o)
            /\ UNCHANGED <<likes, categories, now, pc, loc>>

StatusArchive ==
    \E id \in 1..Len(articles), authorID \in Users :
        \E o \in {Archive(id, authorID, articles, tags, now)} :
            /\ articles' = o.articles
            /\ tags' = o.tags
            /\ call' = Request("Archive", id, "archived")
            /\ ret' = Returned("Archive", o)
            /\ UNCHANGED <<likes, categories, now, pc, loc>>

\* time passes between two calls
Tick ==
    /\ now < MaxNow
    /\ now' = now + 1
    /\ UNCHANGED <<likes, articles, tags, categories, call, ret, pc, loc>>

NextStatus ==
    \/ StatusCreate
    \/ StatusUpdate
    \/ StatusPublish
    \/ StatusUnpublish
    \/ StatusArchive
    \/ Tick

SpecStatus == InitStatus /\ [][NextStatus]_vars

\* C4: in every reachable state an article whose status is published has a
\* non-nil PublishedAt.
C4_PublishedHasTimestamp ==
    \A i \in 1..Len(articles) :
        articles[i].status = "published" => articles[i].publishedAt # NoTime

\* a draft created without a timestamp that a later Publish or Update
\* has published
C4_Witness ==
    /\ call.op \in {"Publish", "Update"}
    /\ call.was = "draft"
    /\ ret.err = ""
    /\ articles[call.id].status = "published"
    /\ articles[call.id].publishedAt = <<now>>
    /\ now > 0

\* C5: once PublishedAt of an article is set, no step changes it or resets
\* it to nil.
C5_PublishedAtKept ==
    [][\A i \in 1..Len(articles) :
          articles[i].publishedAt # NoTime =>
              /\ i \in 1..Len(articles')
              /\ articles'[i].publishedAt = articles[i].publishedAt]_vars

\* an archived or unpublished article published again on a later day, which
\* still carries the day of its first publication
C5_Witness ==
    /\ call.op \in {"Publish", "Update"}
    /\ call.was \in {"archived", "draft"}
    /\ ret.err = ""
    /\ articles[call.id].status = "published"
    /\ articles[call.id].publishedAt # NoTime
    /\ articles[call.id].publishedAt[1] < now

----------------------------------------------------------------------------
(* SpecConc: requests served concurrently. A request is a sequence of      *)
(* database statements; statements of different requests interleave, each  *)
(* statement is atomic.                                                    *)

\* number of concurrent requests
MaxProcs == 3

Procs == 1..MaxProcs

\* titles of the concurrent Create calls: the same base slug
ConcTitles == {<<"a">>, <<"A">>}

\* view_count of the article the requests find in the table
InitialViews == {0, 3}

Idle == [op |-> "none", title |-> <<>>, baseSlug |-> <<>>, slug |-> <<>>,
         counter |-> 0, err |-> "", cause |-> "", id |-> 0]

InitConc ==
    \E v \in InitialViews :
        /\ articles = <<[NewArticle(<<"b">>, <<"b">>, 1, "published", <<0>>)
                         EXCEPT !.viewCount = v]>>
        /\ tags = <<>>
        /\ categories = <<>>
        /\ likes = <<>>
        /\ now = 0
        /\ call = [op |-> "concurrent", initial |-> v]
        /\ ret = NoRet
        /\ pc = [p \in Procs |-> "idle"]
        /\ loc = [p \in Procs |-> Idle]

\* Create up to its first statement: validation, the author, the base slug
ConcCreate(p) ==
    \E title \in ConcTitles :
        /\ pc[p] = "idle"
        /\ validateCreateRequest(CreateRequest(title, "")) = ""
        /\ GenerateSlug(title) # <<>>
        /\ pc' = [pc EXCEPT ![p] = "lookup"]
        /\ loc' = [loc EXCEPT ![p] = [Idle EXCEPT !.op = "Create", !.title = title,
                                                  !.baseSlug = GenerateSlug(title),
                                                  !.slug = GenerateSlug(title),
                                                  !.counter = 1]]
        /\ UNCHANGED <<likes, articles, tags, categories, now, call, ret>>

\* one iteration of the loop of generateUniqueSlug: the lookup of the slug
ConcLookup(p) ==
    /\ pc[p] = "lookup"
    /\ IF GetBySlug(articles, loc[p].slug) = 0
       THEN /\ pc' = [pc EXCEPT ![p] = "insert"]
            /\ loc' = loc
       ELSE IF loc[p].counter + 1 > SlugAttemptLimit
       THEN /\ pc' = [pc EXCEPT ![p] = "done"]
            /\ loc' = [loc EXCEPT ![p].err = "failed to generate slug",
                                  ![p].cause = "unable to generate unique slug"]
       ELSE /\ pc' = pc
            /\ loc' = [loc EXCEPT ![p].slug = SprintfSlug(loc[p].baseSlug, loc[p].counter),
                                  ![p].counter = @ + 1]
    /\ UNCHANGED <<likes, articles, tags, categories, now, call, ret>>

\* the end of Create: the article is built and inserted
ConcInsert(p) ==
    \E ins \in {RepoCreate(articles,
                           createArticle(1, CreateRequest(loc[p].title, ""),
                                         [err |-> "", slug |-> loc[p].slug],
                                         [err |-> "", list |-> <<>>, rows |-> tags],
                                         now),
                           now)} :
        /\ pc[p] = "insert"
        /\ pc' = [pc EXCEPT ![p] = "done"]
        /\ articles' = ins.rows
        /\ loc' = IF ins.err # ""
                  THEN [loc EXCEPT ![p].err = "failed to create article",
                                   ![p].cause = ins.err]
                  ELSE [loc EXCEPT ![p].id = Len(ins.rows)]
        /\ UNCHANGED <<likes, tags, categories, now, call, ret>>

\* IncrementViewCount on the article of the table: one statement
ConcIncrement(p) ==
    /\ pc[p] = "idle"
    /\ pc' = [pc EXCEPT ![p] = "done"]
    /\ loc' = [loc EXCEPT ![p] = [Idle EXCEPT !.op = "IncrementViewCount", !.id = 1]]
    /\ articles' = IncrementViewCount(1, articles)
    /\ UNCHANGED <<likes, tags, categories, now, call, ret>>

NextConc ==
    \E p \in Procs :
        \/ ConcCreate(p)
        \/ ConcLookup(p)
        \/ ConcInsert(p)
        \/ ConcIncrement(p)

SpecConc == InitConc /\ [][NextConc]_vars

CreateDone(p) == pc[p] = "done" /\ loc[p].op = "Create"

\* C3: no two stored articles share a slug; a finished Create either stored
\* its article under its slug, or lost the race for the slug to an article
\* that holds it and returned the creation error.
C3_RaceLoserGetsError ==
    /\ \A i, j \in 1..Len(articles) :
          i # j => articles[i].slug # articles[j].slug
    /\ \A p \in Procs :
          CreateDone(p) =>
              IF loc[p].err = ""
              THEN /\ loc[p].id \in 1..Len(articles)
                   /\ articles[loc[p].id].slug = loc[p].slug
                   /\ \A q \in Procs \ {p} : CreateDone(q) => loc[q].id # loc[p].id
              ELSE /\ loc[p].err = "failed to create article"
                   /\ \E i \in 1..Len(articles) : articles[i].slug = loc[p].slug

\* two calls that both saw the base slug as free: one stored it, the other
\* returned the creation error
C3_Witness ==
    \E p, q \in Procs :
        /\ CreateDone(p) /\ CreateDone(q)
        /\ loc[p].slug = loc[q].slug
        /\ loc[p].err = ""
        /\ loc[q].err = "failed to create article"

IncrementsDone == {p \in Procs : pc[p] = "done" /\ loc[p].op = "IncrementViewCount"}

\* C6: at every point of every interleaving, view_count is its initial value
\* plus the number of IncrementViewCount calls that have run.
C6_ViewCountIsInitialPlusN ==
    articles[1].viewCount = call.initial + Cardinality(IncrementsDone)

\* two increments on a fresh article
C6_Witness ==
    /\ call.initial = 0
    /\ Cardinality(IncrementsDone) = 2
    /\ articles[1].viewCount = 2

----------------------------------------------------------------------------
(* StatisticsService: GetPopularArticles and GetTrendingArticles *)

DefaultListLimit == 10
MaxListLimit == 100
DefaultRankLimit == 10
DefaultTrendingDays == 7

\* the ids of a set in descending order
RECURSIVE DescendingIds(_)
DescendingIds(S) ==
    IF S = {} THEN <<>>
    ELSE LET top == CHOOSE x \in S : \A y \in S : y <= x
         IN  <<top>> \o DescendingIds(S \ {top})

\* the first n elements of a sequence
Take(s, n) == SubSeq(s, 1, IF Len(s) < n THEN Len(s) ELSE n)

\* DB.List: the limit it applies
listLimit(limit) ==
    IF limit < 1 THEN DefaultListLimit
    ELSE IF limit > MaxListLimit THEN MaxListLimit
    ELSE limit

\* articleRepository.List(0, limit, {status: published}): the first page of
\* the published rows in "created_at DESC" order (rows are created in the
\* order of their ids), soft-deleted rows left out
ListPublished(rows, limit) ==
    Take(DescendingIds({i \in Visible(rows) : rows[i].status = "published"}),
         listLimit(limit))

\* scores are fractions, compared as the floating-point values compare
Rat(num, den) == [num |-> num, den |-> den]

RatLess(a, b) == a.num * b.den < b.num * a.den

\* the score with every weight 1
popularityScore_Unweighted(row) == row.viewCount + row.likeCount + row.commentCount

\* views (1x), likes (3x), comments (5x)
popularityScore(row) == row.viewCount + row.likeCount * 3 + row.commentCount * 5

\* the two nested loops that sort the entries by score, descending: entry i
\* is exchanged with a later entry j whenever its score is smaller
RECURSIVE sortByScore(_, _, _)
sortByScore(list, i, j) ==
    IF i > Len(list) - 1 THEN list
    ELSE IF j > Len(list) THEN sortByScore(list, i + 1, i + 2)
    ELSE IF RatLess(list[i].score, list[j].score)
    THEN sortByScore([list EXCEPT ![i] = list[j], ![j] = list[i]], i, j + 1)
    ELSE sortByScore(list, i, j + 1)

rankLimit(limit) == IF limit <= 0 THEN DefaultRankLimit ELSE limit

\* PopularArticle
popularEntry(rows, id) ==
    [id |-> id, viewCount |-> rows[id].viewCount, likeCount |-> rows[id].likeCount,
     commentCount |-> rows[id].commentCount,
     score |-> Rat(popularityScore(rows[id]), 1)]

popularEntries(rows, fetched) ==
    [k \in 1..Len(fetched) |-> popularEntry(rows, fetched[k])]

\* StatisticsService.GetPopularArticles
GetPopularArticles(limit, rows) ==
    Take(sortByScore(popularEntries(rows, ListPublished(rows, rankLimit(limit) * 2)), 1, 2),
         rankLimit(limit))

trendingDays(days) == IF days <= 0 THEN DefaultTrendingDays ELSE days

\* the filter of GetTrendingArticles keeping every article that has a
\* publication time
inTrendingPeriod_AnyTime(row, cutoffDate) == row.publishedAt # NoTime

\* the filter of GetTrendingArticles: PublishedAt != nil and after the cutoff
inTrendingPeriod(row, cutoffDate) ==
    row.publishedAt # NoTime /\ row.publishedAt[1] > cutoffDate

\* TrendingArticle: the base score times 1 / (1 + daysSincePublished / days)
trendingEntry(rows, id, days, t) ==
    [id |-> id, viewCount |-> rows[id].viewCount, likeCount |-> rows[id].likeCount,
     commentCount |-> rows[id].commentCount,
     score |-> Rat(popularityScore(rows[id]) * days,
                   days + (t - rows[id].publishedAt[1]))]

isTrending(rows, days, t, id) == inTrendingPeriod(rows[id], t - days)

trendingEntries(rows, fetched, days, t) ==
    [k \in 1..Len(fetched) |-> trendingEntry(rows, fetched[k], days, t)]

trendingFetched(rows, fetched, days, t) ==
    LET keep(id) == isTrending(rows, days, t, id)
    IN  SelectSeq(fetched, keep)

\* StatisticsService.GetTrendingArticles
GetTrendingArticles(limit, days, rows, t) ==
    Take(sortByScore(trendingEntries(rows,
                                     trendingFetched(rows,
                                                     ListPublished(rows, rankLimit(limit) * 2),
                                                     trendingDays(days), t),
                                     trendingDays(days), t),
                     1, 2),
         rankLimit(limit))

----------------------------------------------------------------------------
(* SpecRank: the ranking functions applied to drawn stores *)

\* most rows of the articles table
MaxRankArticles == 3

\* the day of the call
RankNow == 10

\* (views, likes, comments) of the rows: scores 21, 20 and 20
RankCounts == {<<10, 2, 1>>, <<0, 0, 4>>, <<20, 0, 0>>}

\* days since publication of the published rows
RankAges == {0, 2, 7}

RankRow(status, counts, publishedAt, deleted) ==
    [NewArticle(<<"a">>, <<"a">>, 1, status, publishedAt)
     EXCEPT !.viewCount = counts[1], !.likeCount = counts[2],
            !.commentCount = counts[3], !.deleted = deleted]

\* rows as the service leaves them: published rows carry the day of their
\* publication, which is not after the day of the call
RankRows ==
    {RankRow("published", c, <<RankNow - age>>, FALSE) : c \in RankCounts, age \in RankAges}
    \cup {RankRow("draft", <<0, 0, 4>>, NoTime, FALSE),
          RankRow("published", <<20, 0, 0>>, <<RankNow>>, TRUE)}

\* slugs are unique in a table: row i holds the i-th slug of its title
RankStore(rows) == [i \in 1..Len(rows) |-> [rows[i] EXCEPT !.slug = Candidate(@, i - 1)]]

RankRequests ==
    {[op |-> "GetPopularArticles", limit |-> l, days |-> 0] : l \in {0, 1, 2}}
    \cup {[op |-> "GetTrendingArticles", limit |-> l, days |-> d] :
             l \in {0, 1}, d \in {0, 2}}

InitRank ==
    /\ articles \in {RankStore(rows) : rows \in SeqsUpTo(RankRows, MaxRankArticles)}
    /\ tags = <<>>
    /\ categories = <<>>
    /\ likes = <<>>
    /\ now = RankNow
    /\ call \in RankRequests
    /\ ret = NoRet
    /\ pc = NoProcs
    /\ loc = NoProcs

CallPopular ==
    /\ call.op = "GetPopularArticles"
    /\ ret.op = "none"
    /\ ret' = [op |-> call.op, err |-> "", list |-> GetPopularArticles(call.limit, articles)]
    /\ UNCHANGED <<likes, articles, tags, categories, now, call, pc, loc>>

CallTrending ==
    /\ call.op = "GetTrendingArticles"
    /\ ret.op = "none"
    /\ ret' = [op |-> call.op, err |-> "",
               list |-> GetTrendingArticles(call.limit, call.days, articles, now)]
    /\ UNCHANGED <<likes, articles, tags, categories, now, call, pc, loc>>

NextRank == CallPopular \/ CallTrending

SpecRank == InitRank /\ [][NextRank]_vars

\* the candidates the call fetched, and the ids it returned
FetchedIds(limit) ==
    LET fetched == ListPublished(articles, limit * 2)
    IN  {fetched[k] : k \in 1..Len(fetched)}

ReturnedIds == {ret.list[k].id : k \in 1..Len(ret.list)}

Smaller(a, b) == IF a < b THEN a ELSE b

\* the result is the `most` best of the fetched candidates, best first
TopOfFetched(limit, most) ==
    /\ Len(ret.list) = Smaller(most, Cardinality(FetchedIds(limit)))
    /\ Cardinality(ReturnedIds) = Len(ret.list)
    /\ ReturnedIds \subseteq FetchedIds(limit)
    /\ \A k \in 1..Len(ret.list) :
          ret.list[k].score =
              Rat(articles[ret.list[k].id].viewCount
                  + 3 * articles[ret.list[k].id].likeCount
                  + 5 * articles[ret.list[k].id].commentCount, 1)
    /\ \A k \in 1..(Len(ret.list) - 1) :
          ret.list[k].score.num >= ret.list[k + 1].score.num
    /\ \A c \in FetchedIds(limit) \ ReturnedIds :
          \A k \in 1..Len(ret.list) :
              popularityScore(articles[c]) <= ret.list[k].score.num

\* C9 as stated: GetPopularArticles(limit) returns the min(limit, n) best of
\* the n fetched candidates, scored views + 3*likes + 5*comments, in
\* non-increasing score order.
C9_TopLimitOfFetched ==
    ret.op = "GetPopularArticles" =>
        TopOfFetched(rankLimit(call.limit), call.limit)

\* C9 amended: the same with the limit in force, which is 10 when the limit
\* given is not positive.
C9_TopEffectiveLimitOfFetched ==
    ret.op = "GetPopularArticles" =>
        TopOfFetched(rankLimit(call.limit), rankLimit(call.limit))

\* (10,2,1) scoring 21 returned, (0,0,4) scoring 20 fetched and left out
C9_Witness ==
    /\ ret.op = "GetPopularArticles"
    /\ call.limit = 1
    /\ Len(ret.list) = 1
    /\ ret.list[1].score = Rat(21, 1)
    /\ articles[ret.list[1].id].viewCount = 10
    /\ \E c \in FetchedIds(1) \ ReturnedIds :
          articles[c].commentCount = 4 /\ popularityScore(articles[c]) = 20

C11_HalfScoreAtWindowEdge ==
    ret.op = "GetTrendingArticles" =>
        \A c \in FetchedIds(rankLimit(call.limit)) :
            (/\ articles[c].publishedAt = <<now - trendingDays(call.days)>>
             /\ Len(ret.list) < rankLimit(call.limit)) =>
                \E k \in 1..Len(ret.list) :
                    /\ ret.list[k].id = c
                    /\ 2 * ret.list[k].score.num
                           = popularityScore(articles[c]) * ret.list[k].score.den

----------------------------------------------------------------------------
(* SearchService: sanitizeQuery, prepareBooleanQuery, generateSuggestions, *)
(* Search                                                                  *)

\* the class \w of the regular expressions: letters, digits and '_'
IsWordCh(c) == c \in LowerCh \cup UpperCh \cup DigitCh \cup {"_"}

IsSpaceCh(c) == c \in SpaceCh

\* the punctuation the second expression of sanitizeQuery lists as kept
KeptPunctCh == {"-", ".", ",", "!", "?", ":", ";", "(", ")", "[", "]", "\"", "'"}

\* the class [^\w\s\-\.\,\!\?\:\;\(\)\[\]\"\']
IsDangerousCh(c) == ~(IsWordCh(c) \/ IsSpaceCh(c) \/ c \in KeptPunctCh)

\* regexp.ReplaceAllString(s, " ") for a class followed by '+': every maximal
\* run of characters of the class becomes one space
spaceForRuns(s, InClass(_)) ==
    LET marked == [i \in 1..Len(s) |->
                     [ch |-> s[i], first |-> (i = 1) \/ ~InClass(s[i - 1])]]
        Keep(m) == ~InClass(m.ch) \/ m.first
        kept == SelectSeq(marked, Keep)
    IN  [i \in 1..Len(kept) |-> IF InClass(kept[i].ch) THEN " " ELSE kept[i].ch]

\* SearchService.sanitizeQuery
sanitizeQuery(query) ==
    TrimSpace(spaceForRuns(spaceForRuns(TrimSpace(query), IsSpaceCh), IsDangerousCh))

\* length of the first field of a text that does not start with white space
fieldLen(t) ==
    IF \E i \in 1..Len(t) : t[i] \in SpaceCh
    THEN (CHOOSE i \in 1..Len(t) :
             t[i] \in SpaceCh /\ \A j \in 1..(i - 1) : t[j] \notin SpaceCh) - 1
    ELSE Len(t)

\* strings.Fields: the maximal runs of characters that are not white space
RECURSIVE Fields(_)

fieldsOf(t) ==
    IF t = <<>> THEN <<>>
    ELSE <<SubSeq(t, 1, fieldLen(t))>> \o Fields(SubSeq(t, fieldLen(t) + 1, Len(t)))

Fields(s) == fieldsOf(TrimLeftSpace(s))

\* strings.Join(words, " ")
RECURSIVE Join(_)
Join(words) ==
    IF words = <<>> THEN <<>>
    ELSE IF Len(words) = 1 THEN words[1]
    ELSE words[1] \o <<" ">> \o Join(Tail(words))

\* strings.Trim(s, cutset)
RECURSIVE TrimLeftSet(_, _)
TrimLeftSet(s, cutset) ==
    IF s # <<>> /\ Head(s) \in cutset THEN TrimLeftSet(Tail(s), cutset) ELSE s

RECURSIVE TrimRightSet(_, _)
TrimRightSet(s, cutset) ==
    IF s # <<>> /\ s[Len(s)] \in cutset
    THEN TrimRightSet(SubSeq(s, 1, Len(s) - 1), cutset)
    ELSE s

TrimSet(s, cutset) == TrimRightSet(TrimLeftSet(s, cutset), cutset)

\* the boolean operators of a FULLTEXT query: the cutset "+-<>()~*\""
BooleanOperatorCh == {"+", "-", "<", ">", "(", ")", "~", "*", "\""}

\* the words of prepareBooleanQuery after the trim, the empty ones dropped
booleanTerms(words) ==
    LET trimmed == [k \in 1..Len(words) |-> TrimSet(words[k], BooleanOperatorCh)]
        NotEmpty(w) == w # <<>>
    IN  SelectSeq(trimmed, NotEmpty)

prepareWords(query, words) ==
    IF Len(words) = 0 THEN query ELSE Join(booleanTerms(words))

\* SearchService.prepareBooleanQuery
prepareBooleanQuery(query) == prepareWords(query, Fields(query))

MaxSuggestions == 5
MinSpellingLen == 3

\* the words without the i-th one, joined
withoutWord(words, i) ==
    Join([k \in 1..(Len(words) - 1) |-> IF k < i THEN words[k] ELSE words[k + 1]])

\* "suggest removing words"
removals(words) ==
    IF Len(words) > 1 THEN [i \in 1..Len(words) |-> withoutWord(words, i)] ELSE <<>>

\* "suggest alternative spellings" of the first word
spellings(words) ==
    IF Len(words) > 0 /\ Len(words[1]) > MinSpellingLen
    THEN <<SubSeq(words[1], 1, Len(words[1]) - 1), SubSeq(words[1], 2, Len(words[1]))>>
    ELSE <<>>

\* the seen map of generateSuggestions, never consulted
alreadySeen_Never(seen, suggestion) == FALSE

\* the seen map of generateSuggestions
alreadySeen(seen, suggestion) == suggestion \in seen

\* the loop "remove duplicates" from position i on
RECURSIVE uniqueLoop(_, _, _, _, _)
uniqueLoop(suggestions, i, seen, uniqueSuggestions, lowered) ==
    IF i > Len(suggestions) THEN uniqueSuggestions
    ELSE IF ~alreadySeen(seen, suggestions[i]) /\ suggestions[i] # lowered
    THEN uniqueLoop(suggestions, i + 1, seen \cup {suggestions[i]},
                    Append(uniqueSuggestions, suggestions[i]), lowered)
    ELSE uniqueLoop(suggestions, i + 1, seen, uniqueSuggestions, lowered)

suggestionsOf(words, lowered) ==
    Take(uniqueLoop(removals(words) \o spellings(words), 1, {}, <<>>, lowered),
         MaxSuggestions)

\* SearchService.generateSuggestions
generateSuggestions(query) == suggestionsOf(Fields(ToLower(query)), ToLower(query))

MaxQueryLen == 255
MaxSearchLimit == 100
DefaultSearchLimit == 10

\* SearchRequest: the query, the status filter and the mode (no dates)
SearchRequest(query, mode) == [query |-> query, status |-> "", mode |-> mode]

\* SearchService.validateSearchRequest: "" when the request is valid
validateSearchRequest(req) ==
    IF TrimSpace(req.query) = <<>> THEN "search query is required"
    ELSE IF Len(req.query) > MaxQueryLen
    THEN "search query must be less than 255 characters"
    ELSE IF req.status \notin {"", "draft", "published", "archived"}
    THEN "invalid status filter"
    ELSE IF req.mode \notin {"", "natural", "boolean"}
    THEN "search mode must be 'natural' or 'boolean'"
    ELSE ""

searchPage(page) == IF page < 1 THEN 1 ELSE page

searchLimit(limit) ==
    IF limit < 1 \/ limit > MaxSearchLimit THEN DefaultSearchLimit ELSE limit

\* what Search hands back: the error, the repository call it made (fn is
\* "none" when it made none) and the response
SearchOutcome(err, fn, repoQuery, page, limit, suggestions) ==
    [err |-> err, fn |-> fn, repoQuery |-> repoQuery, page |-> page, limit |-> limit,
     offset |-> (page - 1) * limit, suggestions |-> suggestions]

\* Search once the repository has answered: answer is [err, total]
searchAnswered(query, fn, repoQuery, page, limit, answer) ==
    IF answer.err # ""
    THEN SearchOutcome("search failed", fn, repoQuery, page, limit, <<>>)
    ELSE SearchOutcome("", fn, repoQuery, page, limit,
                       IF answer.total = 0 THEN generateSuggestions(query) ELSE <<>>)

\* Search once the query is sanitized
searchSanitized(req, page, limit, answer, query) ==
    IF query = <<>>
    THEN SearchOutcome("search query cannot be empty after sanitization",
                       "none", <<>>, page, limit, <<>>)
    ELSE IF req.mode = "boolean"
    THEN searchAnswered(query, "SearchWithBoolean", prepareBooleanQuery(query),
                        searchPage(page), searchLimit(limit), answer)
    ELSE searchAnswered(query, "AdvancedSearch", query,
                        searchPage(page), searchLimit(limit), answer)

\* SearchService.Search
Search(req, page, limit, answer) ==
    IF validateSearchRequest(req) # ""
    THEN SearchOutcome(validateSearchRequest(req), "none", <<>>, page, limit, <<>>)
    ELSE searchSanitized(req, page, limit, answer, sanitizeQuery(req.query))

----------------------------------------------------------------------------
(* SpecSearch: Search applied to drawn queries and repository answers *)

\* longest query drawn character by character, and most words of a query
\* drawn word by word
MaxQueryChars == 3
MaxQueryWords == 4

SearchInputCh == {"a", " ", "\t", "!", "-", "(", "\"", "@", "*"}

SearchWords == {<<"a">>, <<"b">>, <<"A", "b", "a", "b">>, <<"b", "a">>}

SearchQueries ==
    SeqsUpTo(SearchInputCh, MaxQueryChars)
    \cup {Join(ws) : ws \in SeqsUpTo(SearchWords, MaxQueryWords)}

\* the paging given and the answer of the repository: [err, total]
SearchEnvs ==
    {[page |-> 1, limit |-> 10, answer |-> a] :
        a \in {[err |-> "", total |-> 0], [err |-> "", total |-> 1],
               [err |-> "connection lost", total |-> 0]}}
    \cup {[page |-> pl[1], limit |-> pl[2], answer |-> [err |-> "", total |-> 1]] :
             pl \in {<<0, 10>>, <<2, 0>>, <<2, 101>>}}

InitSearch ==
    /\ articles = <<>>
    /\ tags = <<>>
    /\ categories = <<>>
    /\ likes = <<>>
    /\ now = 0
    /\ \E q \in SearchQueries, mode \in {"", "boolean"}, env \in SearchEnvs :
          call = [op |-> "Search", query |-> q, mode |-> mode, page |-> env.page,
                  limit |-> env.limit, answer |-> env.answer]
    /\ ret = NoRet
    /\ pc = NoProcs
    /\ loc = NoProcs

CallSearch ==
    /\ call.op = "Search"
    /\ ret.op = "none"
    /\ \E o \in {Search(SearchRequest(call.query, call.mode), call.page, call.limit,
                        call.answer)} :
          ret' = [op |-> "Search", err |-> o.err, fn |-> o.fn, repoQuery |-> o.repoQuery,
                  page |-> o.page, limit |-> o.limit, offset |-> o.offset,
                  suggestions |-> o.suggestions]
    /\ UNCHANGED <<likes, articles, tags, categories, now, call, pc, loc>>

NextSearch == CallSearch

SpecSearch == InitSearch /\ [][NextSearch]_vars

\* punctuation of the drawn queries
PunctuationCh == KeptPunctCh \cup {"@", "*", "+", "<", ">", "~"}

PunctuationOnly(query) ==
    query # <<>> /\ \A i \in 1..Len(query) : query[i] \in PunctuationCh

\* C12: a query of punctuation characters only is sanitized to the empty
\* string, and Search rejects it without calling the article repository.
C12_PunctuationOnlyRejected ==
    (ret.op = "Search" /\ PunctuationOnly(call.query)) =>
        /\ sanitizeQuery(call.query) = <<>>
        /\ ret.err # ""
        /\ ret.fn = "none"

\* C13: in boolean mode the query passed to SearchWithBoolean holds none of
\* the boolean-operator characters.
C13_NoOperatorInBooleanQuery ==
    (ret.op = "Search" /\ ret.fn = "SearchWithBoolean") =>
        \A i \in 1..Len(ret.repoQuery) : ret.repoQuery[i] \notin BooleanOperatorCh

ZeroResultSearch == ret.op = "Search" /\ ret.err = "" /\ call.answer.total = 0

\* C14: the suggestions of a zero-result search hold no entry twice, are at
\* most 5, and do not hold the sanitized, lower-cased query.
C14_SuggestionsUniqueCapped ==
    ZeroResultSearch =>
        /\ \A i, j \in 1..Len(ret.suggestions) :
              i # j => ret.suggestions[i] # ret.suggestions[j]
        /\ Len(ret.suggestions) <= 5
        /\ \A i \in 1..Len(ret.suggestions) :
              ret.suggestions[i] # ToLower(sanitizeQuery(call.query))

\* a query of four different words, the first longer than three characters:
\* six different suggestions, five returned
C14_Witness ==
    /\ ZeroResultSearch
    /\ Len(ret.suggestions) = 5
    /\ LET words == Fields(ToLower(sanitizeQuery(call.query)))
           all == removals(words) \o spellings(words)
       IN  Cardinality({all[i] : i \in 1..Len(all)}) = 6

\* C19: a Search given a page below 1, or a limit below 1 or above 100, is
\* answered with a validation error
C19_BadPagingRejected ==
    (ret.op = "Search" /\ (call.page < 1 \/ call.limit < 1 \/ call.limit > MaxSearchLimit))
        => ret.err # ""

----------------------------------------------------------------------------
(* Archive: articleRepository.GetArchive and ArchiveService.GetArchive.
   In the archive specification a publication time is a count of months:
   month m of year y is y * 12 + (m - 1). *)

\* the months of a year
MonthsPerYear == 12

\* YEAR(published_at) and MONTH(published_at)
YearOf(t) == t \div MonthsPerYear
MonthOf(t) == (t % MonthsPerYear) + 1

\* the rows the archive query reads: published, with a publication time, not
\* soft-deleted
archiveRows(rows) ==
    {i \in 1..Len(rows) : /\ rows[i].status = "published"
                          /\ rows[i].publishedAt # NoTime
                          /\ ~rows[i].deleted}

\* one result row of GROUP BY YEAR(published_at), MONTH(published_at)
archiveGroup(rows, t) ==
    [year |-> YearOf(t), month |-> MonthOf(t),
     count |-> Cardinality({i \in archiveRows(rows) : rows[i].publishedAt[1] = t})]

\* the result of the query: ORDER BY year DESC, month DESC
archiveResults(rows) ==
    LET times == DescendingIds({rows[i].publishedAt[1] : i \in archiveRows(rows)})
    IN  [k \in 1..Len(times) |-> archiveGroup(rows, times[k])]

\* yearMap[year]: the months of the year, appended in the order of the results
yearMonths(results, year) ==
    LET ofYear(r) == r.year = year
        months == SelectSeq(results, ofYear)
    IN  [k \in 1..Len(months) |-> [month |-> months[k].month, count |-> months[k].count]]

\* the keys of yearMap
yearKeys(results) == {results[k].year : k \in 1..Len(results)}

\* the orders in which a range over a map may visit its keys
RangeOrders(keys) ==
    {o \in [1..Cardinality(keys) -> keys] : \A i, j \in DOMAIN o : i # j => o[i] # o[j]}

\* articleRepository.GetArchive: the "years" of the response, one entry for
\* each key of yearMap, in the order the range over the map visits them
repoGetArchive(rows, order) ==
    [k \in 1..Len(order) |->
        [year |-> order[k], months |-> yearMonths(archiveResults(rows), order[k])]]

\* ArchiveEntry list and total of one year
RECURSIVE SumCounts(_)
SumCounts(months) ==
    IF months = <<>> THEN 0 ELSE months[1].count + SumCounts(Tail(months))

archiveYear(yearData) ==
    [year |-> yearData.year,
     months |-> [k \in 1..Len(yearData.months) |->
                    [year |-> yearData.year, month |-> yearData.months[k].month,
                     articleCount |-> yearData.months[k].count]],
     total |-> SumCounts(yearData.months)]

RECURSIVE SumTotals(_)
SumTotals(years) ==
    IF years = <<>> THEN 0 ELSE years[1].total + SumTotals(Tail(years))

archiveResponse(years) ==
    [op |-> "GetArchive", err |-> "", years |-> years, total |-> SumTotals(years)]

\* ArchiveService.GetArchive; answer is the error of the query, "" for none
GetArchive(rows, order, answer) ==
    IF answer # ""
    THEN [op |-> "GetArchive", err |-> "failed to get archive data", years |-> <<>>, total |-> 0]
    ELSE archiveResponse([k \in 1..Len(order) |-> archiveYear(repoGetArchive(rows, order)[k])])

\* the loop over archive.Years of GetArchiveStatistics: the place of the most
\* active year, 0 for nil; a later year replaces it when its total is greater
RECURSIVE mostActiveYear(_, _, _)
mostActiveYear(years, i, best) ==
    IF i > Len(years) THEN best
    ELSE IF best = 0 \/ years[i].total > years[best].total
    THEN mostActiveYear(years, i + 1, i)
    ELSE mostActiveYear(years, i + 1, best)

\* the months in the order the nested loop visits them
RECURSIVE visitedMonths(_)
visitedMonths(years) ==
    IF years = <<>> THEN <<>> ELSE years[1].months \o visitedMonths(Tail(years))

\* the inner loop: a later month replaces the most active one when its count
\* is greater
RECURSIVE mostActiveMonth(_, _, _)
mostActiveMonth(months, j, best) ==
    IF j > Len(months) THEN best
    ELSE IF best = 0 \/ months[j].articleCount > months[best].articleCount
    THEN mostActiveMonth(months, j + 1, j)
    ELSE mostActiveMonth(months, j + 1, best)

RECURSIVE SumMonths(_)
SumMonths(years) ==
    IF years = <<>> THEN 0 ELSE Len(years[1].months) + SumMonths(Tail(years))

\* the stats map; an absent key is the empty sequence
archiveStats(archive, y, m) ==
    [op |-> "GetArchiveStatistics", err |-> "",
     totalArticles |-> archive.total,
     totalYears |-> Len(archive.years),
     totalMonths |-> SumMonths(archive.years),
     mostActiveYear |->
        IF y = 0 THEN <<>>
        ELSE <<[year |-> archive.years[y].year, count |-> archive.years[y].total]>>,
     mostActiveMonth |->
        IF m = 0 THEN <<>>
        ELSE <<[year |-> visitedMonths(archive.years)[m].year,
                month |-> visitedMonths(archive.years)[m].month,
                count |-> visitedMonths(archive.years)[m].articleCount]>>]

\* ArchiveService.GetArchiveStatistics on the archive GetArchive returned
archiveStatistics(archive) ==
    IF archive.err # ""
    THEN [op |-> "GetArchiveStatistics", err |-> archive.err,
          totalArticles |-> 0, totalYears |-> 0, totalMonths |-> 0,
          mostActiveYear |-> <<>>, mostActiveMonth |-> <<>>]
    ELSE archiveStats(archive, mostActiveYear(archive.years, 1, 0),
                      mostActiveMonth(visitedMonths(archive.years), 1, 0))

GetArchiveStatistics(rows, order, answer) == archiveStatistics(GetArchive(rows, order, answer))

----------------------------------------------------------------------------
(* SpecArchive: the archive of drawn stores *)

\* most rows of the articles table
MaxArchiveArticles == 3

\* 2023-01, 2023-02 and 2024-01
ArchiveTimes == {2023 * MonthsPerYear, 2023 * MonthsPerYear + 1, 2024 * MonthsPerYear}

ArchiveRowSet ==
    {RankRow("published", <<0, 0, 0>>, <<t>>, FALSE) : t \in ArchiveTimes}
    \cup {RankRow("draft", <<0, 0, 0>>, NoTime, FALSE),
          RankRow("published", <<0, 0, 0>>, <<2024 * MonthsPerYear>>, TRUE)}

InitArchive ==
    /\ articles \in {RankStore(rows) : rows \in SeqsUpTo(ArchiveRowSet, MaxArchiveArticles)}
    /\ tags = <<>>
    /\ categories = <<>>
    /\ likes = <<>>
    /\ now = 0
    /\ call = NoCall
    /\ ret = NoRet
    /\ pc = NoProcs
    /\ loc = NoProcs

CallArchive ==
    /\ call = NoCall
    /\ \E answer \in {"", "connection lost"} :
       \E order \in RangeOrders(yearKeys(archiveResults(articles))) :
          /\ call' = [op |-> "GetArchive", answer |-> answer]
          /\ ret' = GetArchive(articles, order, answer)
    /\ UNCHANGED <<likes, articles, tags, categories, now, pc, loc>>

CallArchiveStatistics ==
    /\ call = NoCall
    /\ \E answer \in {"", "connection lost"} :
       \E order \in RangeOrders(yearKeys(archiveResults(articles))) :
          /\ call' = [op |-> "GetArchiveStatistics", answer |-> answer]
          /\ ret' = GetArchiveStatistics(articles, order, answer)
    /\ UNCHANGED <<likes, articles, tags, categories, now, pc, loc>>

NextArchive == CallArchive \/ CallArchiveStatistics

SpecArchive == InitArchive /\ [][NextArchive]_vars

\* C15: GetArchive returns its years in strictly descending order and the
\* months of each year in strictly descending order
C15_ArchiveDescending ==
    (ret.op = "GetArchive" /\ ret.err = "") =>
        /\ \A i, j \in 1..Len(ret.years) : i < j => ret.years[i].year > ret.years[j].year
        /\ \A y \in 1..Len(ret.years) :
              \A i, j \in 1..Len(ret.years[y].months) :
                  i < j => ret.years[y].months[i].month > ret.years[y].months[j].month

\* the months of every returned year are in strictly descending order and
\* carry the number of published articles of the month
ArchiveMonthsDescending ==
    (ret.op = "GetArchive" /\ ret.err = "") =>
        \A y \in 1..Len(ret.years) :
            \A i, j \in 1..Len(ret.years[y].months) :
                i < j => ret.years[y].months[i].month > ret.years[y].months[j].month

----------------------------------------------------------------------------
(* CategoryService.Delete *)

\* a row of the categories table
NewCategory(name) == [name |-> name, slug |-> ToLower(name), deleted |-> FALSE]

\* categoryRepository.GetArticles counting no article
categoryArticleCount_None(arts, id) == 0

\* categoryRepository.GetArticles(id, 0, 1): the total of DB.List filtered on
\* category_id, which counts the rows that are not soft-deleted
categoryArticleCount(arts, id) ==
    Cardinality({i \in Visible(arts) : arts[i].category = id})

\* categoryRepository.Delete: Category has a DeletedAt, the row is marked
categoryRepoDelete(cats, id) ==
    [i \in 1..Len(cats) |-> IF i = id THEN [cats[i] EXCEPT !.deleted = TRUE] ELSE cats[i]]

CategoryOutcome(err, cats) == [err |-> err, categories |-> cats]

\* the steps of CategoryService.Delete after the category was found; count is
\* what GetArticles returned
categoryDeleteCounted(id, cats, count, fault) ==
    IF fault = "count" THEN CategoryOutcome("failed to check category articles", cats)
    ELSE IF count > 0
    THEN CategoryOutcome("cannot delete category because it has articles", cats)
    ELSE IF fault = "delete" THEN CategoryOutcome("failed to delete category", cats)
    ELSE CategoryOutcome("", categoryRepoDelete(cats, id))

\* CategoryService.Delete; fault names the repository call that fails with a
\* database error, "none" for no failure
CategoryDelete(id, cats, arts, fault) ==
    IF id = 0 THEN CategoryOutcome("category ID cannot be zero", cats)
    ELSE IF fault = "get" THEN CategoryOutcome("failed to get category", cats)
    ELSE IF CatGetByID(cats, id) = 0 THEN CategoryOutcome("category not found", cats)
    ELSE categoryDeleteCounted(id, cats, categoryArticleCount(arts, id), fault)

----------------------------------------------------------------------------
(* SpecCategory: categories deleted while articles come and go *)

\* most rows of the categories table
MaxCategories == 2

\* most rows of the articles table
MaxCategoryArticles == 2

CategoryFaults == {"none", "get", "count", "delete"}

CategoryStore == [i \in 1..MaxCategories |-> NewCategory(Repeat("a", i))]

\* an article of author 1 in category c (0: no category)
CategoryArticle(c, deleted) ==
    [NewArticle(<<"a">>, <<"a">>, 1, "draft", NoTime)
     EXCEPT !.category = c, !.deleted = deleted]

CategoryArticleRows ==
    {CategoryArticle(c, d) : c \in 0..MaxCategories, d \in BOOLEAN}

InitCategory ==
    /\ articles \in {RankStore(rows) :
                        rows \in SeqsUpTo(CategoryArticleRows, MaxCategoryArticles)}
    /\ tags = <<>>
    /\ categories = CategoryStore
    /\ likes = <<>>
    /\ now = 0
    /\ call = NoCall
    /\ ret = NoRet
    /\ pc = NoProcs
    /\ loc = NoProcs

\* the articles of the store that reference category c
Referencing(arts, c) == {i \in 1..Len(arts) : ~arts[i].deleted /\ arts[i].category = c}

\* CategoryService.Delete; the call records the articles that referenced the
\* category when it was made
DoCategoryDelete ==
    \E id \in 0..(MaxCategories + 1), fault \in CategoryFaults :
        \E o \in {CategoryDelete(id, categories, articles, fault)} :
            /\ call' = [op |-> "CategoryDelete", id |-> id,
                        found |-> (CatGetByID(categories, id) # 0),
                        referencing |-> Referencing(articles, id)]
            /\ ret' = [op |-> "CategoryDelete", err |-> o.err]
            /\ categories' = o.categories
            /\ UNCHANGED <<likes, articles, tags, now, pc, loc>>

\* ArticleService.Delete by the author: the article stops referencing its
\* category
DoArticleDelete ==
    \E id \in 1..Len(articles) :
        \E o \in {Delete(id, 1, articles, tags)} :
            /\ call' = [op |-> "Delete", id |-> id]
            /\ ret' = [op |-> "Delete", err |-> o.err]
            /\ articles' = o.articles
            /\ tags' = o.tags
            /\ UNCHANGED <<likes, categories, now, pc, loc>>

NextCategory == DoCategoryDelete \/ DoArticleDelete

SpecCategory == InitCategory /\ [][NextCategory]_vars

\* C16: CategoryService.Delete of a category that at least one article
\* references returns an error and leaves the category in the store; a
\* category leaves the store only in a step where no article references it
C16_DeleteBlockedWhileReferenced ==
    /\ [](ret.op = "CategoryDelete" /\ call.found /\ call.referencing # {}
            => ret.err # "" /\ ~categories[call.id].deleted)
    /\ [][\A c \in 1..Len(categories) :
            (~categories[c].deleted /\ categories'[c].deleted)
                => Referencing(articles, c) = {}]_vars

\* a Delete refused for a referenced category, and a Delete that succeeded
\* once the article of the category was deleted
C16_Witness ==
    /\ ret.op = "CategoryDelete"
    /\ call.found
    /\ call.referencing # {}
    /\ ret.err = "cannot delete category because it has articles"

C16_WitnessDeleted ==
    /\ ret.op = "CategoryDelete"
    /\ ret.err = ""
    /\ categories[call.id].deleted
    /\ \E i \in 1..Len(articles) : articles[i].category = call.id

----------------------------------------------------------------------------
(* SpecOwner: Update, Delete, Publish, Unpublish and Archive called by the
   author of an article and by another user *)

\* most rows of the articles table
MaxOwnerArticles == 1

\* the rows of the drawn stores: articles of both users, in each status, one
\* of them soft-deleted
OwnerRows ==
    {NewArticle(<<"a">>, <<"a">>, u, "draft", NoTime) : u \in Users}
    \cup {NewArticle(<<"a">>, <<"a">>, u, "published", <<0>>) : u \in Users}
    \cup {[NewArticle(<<"a">>, <<"a">>, 1, "draft", NoTime) EXCEPT !.deleted = TRUE]}

\* the update requests: a new title, and one with a status that is no status
OwnerUpdates == {UpdateRequest(<<"b">>, ""), UpdateRequest(<<"b">>, "deleted")}

InitOwner ==
    /\ articles \in {RankStore(rows) : rows \in SeqsUpTo(OwnerRows, MaxOwnerArticles)}
    /\ tags = <<>>
    /\ categories = <<>>
    /\ likes = <<>>
    /\ now = 1
    /\ call = NoCall
    /\ ret = NoRet
    /\ pc = NoProcs
    /\ loc = NoProcs

\* the call as made: owner is the author of the article, 0 for an article the
\* store does not hold
OwnerCall(op, id, authorID, valid) ==
    [op |-> op, id |-> id, authorID |-> authorID, valid |-> valid,
     owner |-> IF GetByID(articles, id) = 0 THEN 0 ELSE articles[id].author]

OwnerStep(op, id, authorID, valid, o) ==
    /\ call' = OwnerCall(op, id, authorID, valid)
    /\ ret' = Returned(op, o)
    /\ articles' = o.articles
    /\ tags' = o.tags
    /\ UNCHANGED <<likes, categories, now, pc, loc>>

OwnerUpdate ==
    \E id \in 1..(Len(articles) + 1), authorID \in Users, req \in OwnerUpdates :
        \E o \in {Update(id, authorID, req, articles, tags, categories, now)} :
            OwnerStep("Update", id, authorID, validateUpdateRequest(req) = "", o)

OwnerDelete ==
    \E id \in 1..(Len(articles) + 1), authorID \in Users :
        \E o \in {Delete(id, authorID, articles, tags)} :
            OwnerStep("Delete", id, authorID, TRUE, o)

OwnerPublish ==
    \E id \in 1..(Len(articles) + 1), authorID \in Users :
        \E o \in {Publish(id, authorID, articles, tags, now)} :
            OwnerStep("Publish", id, authorID, TRUE, o)

OwnerUnpublish ==
    \E id \in 1..(Len(articles) + 1), authorID \in Users :
        \E o \in {Unpublish(id, authorID, articles, tags, now)} :
            OwnerStep("Unpublish", id, authorID, TRUE, o)

OwnerArchive ==
    \E id \in 1..(Len(articles) + 1), authorID \in Users :
        \E o \in {Archive(id, authorID, articles, tags, now)} :
            OwnerStep("Archive", id, authorID, TRUE, o)

NextOwner == OwnerUpdate \/ OwnerDelete \/ OwnerPublish \/ OwnerUnpublish \/ OwnerArchive

SpecOwner == InitOwner /\ [][NextOwner]_vars

OwnerOps == {"Update", "Delete", "Publish", "Unpublish", "Archive"}

UnauthorizedErrors ==
    {"unauthorized: you can only edit your own articles",
     "unauthorized: you can only delete your own articles",
     "unauthorized: you can only modify your own articles"}

\* the call is made on an article of the store by a user who is not its author
ByAnotherUser(c) == c.op \in OwnerOps /\ c.owner # 0 /\ c.owner # c.authorID

----------------------------------------------------------------------------
(* SearchService.GetSearchSuggestions *)

MaxSuggestionLimit == 20
DefaultSuggestionLimit == 10

\* the limit categoryRepository.List and tagRepository.List ask for
ListAllLimit == 1000

\* strings.Contains
Contains(s, sub) ==
    \E i \in 0..(Len(s) - Len(sub)) : SubSeq(s, i + 1, i + Len(sub)) = sub

\* the order of two characters in the collation of the name columns, which
\* ignores case
CharBefore(c, d) == ToLowerCh(c) = "a" /\ ToLowerCh(d) = "b"

\* ORDER BY name ASC: x comes before y
RECURSIVE NameBefore(_, _)
NameBefore(x, y) ==
    IF y = <<>> THEN FALSE
    ELSE IF x = <<>> THEN TRUE
    ELSE IF ToLowerCh(Head(x)) = ToLowerCh(Head(y)) THEN NameBefore(Tail(x), Tail(y))
    ELSE CharBefore(Head(x), Head(y))

\* the names of a set in ascending order
RECURSIVE AscendingNames(_)
AscendingNames(S) ==
    IF S = {} THEN <<>>
    ELSE LET first == CHOOSE x \in S : \A y \in S \ {x} : NameBefore(x, y)
         IN  <<first>> \o AscendingNames(S \ {first})

\* categoryRepository.List and tagRepository.List: the names of the rows that
\* are not soft-deleted, by name, cut at the limit of DB.List
listNames(rows) ==
    Take(AscendingNames({rows[i].name : i \in {j \in 1..Len(rows) : ~rows[j].deleted}}),
         listLimit(ListAllLimit))

\* the suggestions of one kind: the names that contain the partial query,
\* both in lower case
suggestionsOfKind(names, kind, partialQuery) ==
    LET matches(name) == Contains(ToLower(name), ToLower(partialQuery))
        matching == SelectSeq(names, matches)
    IN  [k \in 1..Len(matching) |-> [term |-> matching[k], type |-> kind]]

suggestionLimit(limit) ==
    IF limit < 1 \/ limit > MaxSuggestionLimit THEN DefaultSuggestionLimit ELSE limit

\* SearchService.GetSearchSuggestions; categoryErr and tagErr are the errors
\* of categoryRepo.List and tagRepo.List, "" for none. A list that failed
\* adds no suggestion, and the error returned is always nil.
GetSearchSuggestions(partialQuery, limit, cats, tgs, categoryErr, tagErr) ==
    [err |-> "",
     suggestions |->
        Take((IF categoryErr = "" THEN suggestionsOfKind(listNames(cats), "category", partialQuery)
              ELSE <<>>)
             \o (IF tagErr = "" THEN suggestionsOfKind(listNames(tgs), "tag", partialQuery)
                 ELSE <<>>),
             suggestionLimit(limit))]

----------------------------------------------------------------------------
(* SpecSuggest: suggestions asked of drawn categories and tags, with
   repository calls that fail *)

\* most rows of the categories table and of the tags table
MaxNamed == 2

\* names differ when case is ignored, as the unique index on name requires
SuggestNames == {<<"a">>, <<"A", "b">>, <<"b">>}

\* the tables holding each name at most once
NamedStores ==
    {s \in SeqsUpTo(SuggestNames, MaxNamed) : \A i, j \in DOMAIN s : i # j => s[i] # s[j]}

SuggestQueries == {<<>>, <<"A">>, <<"b">>}

SuggestLimits == {0, 1, 21}

ListErrors == {"", "connection lost"}

InitSuggest ==
    /\ articles = <<>>
    /\ tags \in {[i \in DOMAIN s |-> NewTag(s[i], ToLower(s[i]))] : s \in NamedStores}
    /\ categories \in {[i \in DOMAIN s |-> NewCategory(s[i])] : s \in NamedStores}
    /\ likes = <<>>
    /\ now = 0
    /\ call = NoCall
    /\ ret = NoRet
    /\ pc = NoProcs
    /\ loc = NoProcs

CallSuggestions ==
    /\ call = NoCall
    /\ \E q \in SuggestQueries, limit \in SuggestLimits,
          categoryErr \in ListErrors, tagErr \in ListErrors :
          \E o \in {GetSearchSuggestions(q, limit, categories, tags, categoryErr, tagErr)} :
             /\ call' = [op |-> "GetSearchSuggestions", query |-> q, limit |-> limit,
                         categoryErr |-> categoryErr, tagErr |-> tagErr]
             /\ ret' = [op |-> "GetSearchSuggestions", err |-> o.err,
                        suggestions |-> o.suggestions]
    /\ UNCHANGED <<likes, articles, tags, categories, now, pc, loc>>

NextSuggest == CallSuggestions

SpecSuggest == InitSuggest /\ [][NextSuggest]_vars

\* C18: when a persistence call made by the operation fails with an error
\* that is not a not-found, the operation returns an error
C18_FailureReported ==
    (ret.op = "GetSearchSuggestions" /\ (call.categoryErr # "" \/ call.tagErr # ""))
        => ret.err # ""

\* without failing calls the suggestions are the matching category names
\* followed by the matching tag names, each list in name order
SuggestionsWhenListsSucceed ==
    (ret.op = "GetSearchSuggestions" /\ call.categoryErr = "" /\ call.tagErr = "")
        => /\ ret.err = ""
           /\ Len(ret.suggestions) <= suggestionLimit(call.limit)
           /\ \A k \in 1..Len(ret.suggestions) :
                 Contains(ToLower(ret.suggestions[k].term), ToLower(call.query))

----------------------------------------------------------------------------
(* The loop of generateUniqueSlug (ArticleService and TagService), one
   lookup at a step *)

\* the loop after a lookup that found a row, without the limit on the counter
slugLoopTaken_NoLimit(l) ==
    [l EXCEPT !.slug = SprintfSlug(l.baseSlug, l.counter),
              !.counter = l.counter + 1,
              !.lookups = l.lookups + 1]

\* the loop after a lookup that found a row: the next candidate, and the end
\* once the counter has passed the limit
slugLoopTaken(l) ==
    [l EXCEPT !.slug = SprintfSlug(l.baseSlug, l.counter),
              !.counter = l.counter + 1,
              !.lookups = l.lookups + 1,
              !.err = IF l.counter + 1 > SlugAttemptLimit
                      THEN "unable to generate unique slug" ELSE "",
              !.done = l.counter + 1 > SlugAttemptLimit]

\* one iteration of the loop; answer is what GetBySlug returned for l.slug:
\* "found", "not found" (gorm.ErrRecordNotFound) or "error" (any other error)
slugLoopStep(l, answer) ==
    IF answer = "error"
    THEN [l EXCEPT !.lookups = l.lookups + 1, !.done = TRUE, !.failed = TRUE,
                   !.err = "error checking slug availability"]
    ELSE IF answer = "not found"
    THEN [l EXCEPT !.lookups = l.lookups + 1, !.done = TRUE]
    ELSE slugLoopTaken(l)

\* the locals of generateUniqueSlug when it enters the loop
slugLoopEnter(baseSlug, emptyErr) ==
    [baseSlug |-> baseSlug, slug |-> baseSlug, counter |-> 1, lookups |-> 0,
     err |-> IF baseSlug = <<>> THEN emptyErr ELSE "",
     done |-> baseSlug = <<>>, failed |-> FALSE]

\* the answers a lookup may give: the one of the table, or a database error
lookupAnswers(found) == {IF found THEN "found" ELSE "not found", "error"}

----------------------------------------------------------------------------
(* SpecLoop: generateUniqueSlug run step by step on stores where the base
   slug and base-1 .. base-n are taken *)

\* the short prefixes: n in 0 .. LoopSmallPrefix
LoopSmallPrefix == 1

\* how far past the last candidate (base-999) the prefix of a store reaches
LoopPastLimit == 0

LoopPrefixLens ==
    (0..LoopSmallPrefix)
    \cup ((SlugAttemptLimit - 1)..(SlugAttemptLimit - 1 + LoopPastLimit))

\* a title with a slug, and one without
LoopTitles == {<<"a">>, <<" ">>}

InitLoop ==
    /\ now = 0
    /\ categories = <<>>
    /\ likes = <<>>
    /\ ret = NoRet
    /\ pc = "enter"
    /\ loc = NoProcs
    /\ \E title \in LoopTitles :
        \/ /\ call = [op |-> "ArticleService.generateUniqueSlug", text |-> title]
           /\ articles \in {<<>>} \cup {PrefixArticles(<<"a">>, n, FALSE) : n \in LoopPrefixLens}
           /\ tags = <<>>
        \/ /\ call = [op |-> "TagService.generateUniqueSlug", text |-> title]
           /\ articles = <<>>
           /\ tags \in {<<>>} \cup {PrefixTags(<<"a">>, n, FALSE) : n \in LoopPrefixLens}

\* the end of a step: the function returns when the loop is done
LoopAfter(l) ==
    /\ loc' = l
    /\ pc' = IF l.done THEN "done" ELSE "lookup"
    /\ ret' = IF l.done
              THEN [op |-> call.op, err |-> l.err, slug |-> IF l.err = "" THEN l.slug ELSE <<>>]
              ELSE ret
    /\ UNCHANGED <<likes, articles, tags, categories, now, call>>

ArticleLoopEnter ==
    /\ call.op = "ArticleService.generateUniqueSlug"
    /\ pc = "enter"
    /\ LoopAfter(slugLoopEnter(GenerateSlug(call.text), "cannot generate slug from title"))

TagLoopEnter ==
    /\ call.op = "TagService.generateUniqueSlug"
    /\ pc = "enter"
    /\ LoopAfter(slugLoopEnter(GenerateSlug(call.text), "cannot generate slug from name"))

ArticleLoopLookup ==
    /\ call.op = "ArticleService.generateUniqueSlug"
    /\ pc = "lookup"
    /\ \E answer \in lookupAnswers(GetBySlug(articles, loc.slug) # 0) :
          LoopAfter(slugLoopStep(loc, answer))

TagLoopLookup ==
    /\ call.op = "TagService.generateUniqueSlug"
    /\ pc = "lookup"
    /\ \E answer \in lookupAnswers(TagGetBySlug(tags, loc.slug) # 0) :
          LoopAfter(slugLoopStep(loc, answer))

NextLoop == ArticleLoopEnter \/ TagLoopEnter \/ ArticleLoopLookup \/ TagLoopLookup

SpecLoop == InitLoop /\ [][NextLoop]_vars

\* the function keeps running until it returns
SpecLoopFair == SpecLoop /\ WF_vars(NextLoop)

\* the table the call reads holds the slug
LoopTaken(slug) ==
    IF call.op = "ArticleService.generateUniqueSlug"
    THEN GetBySlug(articles, slug) # 0
    ELSE TagGetBySlug(tags, slug) # 0

\* C20: generateUniqueSlug returns; it makes at most 1000 lookups; when every
\* candidate it looked up (the base and base-1 .. base-999) is taken and no
\* lookup failed it returns the error "unable to generate unique slug"; and
\* the step whose lookup fails with an error other than not-found is its
\* last, returning an error
C20_LoopEndsWithinLimit ==
    /\ <>(pc = "done")
    /\ [](pc # "enter" => loc.lookups <= SlugAttemptLimit)
    /\ []((/\ pc = "done"
           /\ loc.baseSlug # <<>>
           /\ ~loc.failed
           /\ \A k \in 0..(SlugAttemptLimit - 1) : LoopTaken(Candidate(loc.baseSlug, k)))
            => (ret.err = "unable to generate unique slug"
                /\ loc.lookups = SlugAttemptLimit))
    /\ [][(pc = "lookup" /\ loc'.failed)
            => (/\ pc' = "done"
                /\ ret'.err = "error checking slug availability"
                /\ loc'.lookups = loc.lookups + 1)]_vars

\* the loop gave up after 1000 lookups that all found a row
C20_Witness ==
    /\ pc = "done"
    /\ ret.err = "unable to generate unique slug"
    /\ loc.lookups = SlugAttemptLimit
    /\ ~loc.failed

\* the 1000th lookup failed with a database error
C20_WitnessFailedLookup ==
    /\ pc = "done"
    /\ loc.failed
    /\ loc.lookups = SlugAttemptLimit
    /\ ret.err = "error checking slug availability"

\* a run without a failed lookup returns what the scan of generateUniqueSlug
\* returns
LoopAgreesWithScan ==
    (pc = "done" /\ ~loc.failed) =>
        [err |-> ret.err, slug |-> ret.slug]
            = (IF call.op = "ArticleService.generateUniqueSlug"
               THEN generateUniqueSlug(call.text, articles)
               ELSE tagGenerateUniqueSlug(call.text, tags))

----------------------------------------------------------------------------
(* SpecTagFail: batches of tag names resolved on stores where a name cannot
   be resolved: its lookup fails, its row is soft-deleted (the unique index
   still holds the name), its slug is empty, or every slug is taken *)

\* longest batch of names, and longest batch on the store without a free slug
MaxFailBatch == 2
MaxFullStoreBatch == 1

FailBatchNames == {<<"a">>, <<"A">>, <<"b", " ">>, <<"_">>, <<" ">>}

\* the names whose lookup fails with a database error
FailingLookups == {{}, {<<"a">>}, {<<"b">>}}

\* the stores: empty, holding "a", holding a soft-deleted "b", and holding
\* the slugs a, a-1 .. a-999
FailStores ==
    {<<>>, <<NewTag(<<"a">>, <<"a">>)>>,
     <<[NewTag(<<"b">>, <<"b">>) EXCEPT !.deleted = TRUE]>>,
     PrefixTags(<<"a">>, TagSlugAttemptLimit - 1, FALSE)}

InitTagFail ==
    /\ articles = <<>>
    /\ tags \in FailStores
    /\ categories = <<>>
    /\ likes = <<>>
    /\ now = 0
    /\ call = NoCall
    /\ ret = NoRet
    /\ pc = NoProcs
    /\ loc = NoProcs

CallProcessFailing ==
    /\ call = NoCall
    /\ \E batch \in SeqsUpTo(FailBatchNames, MaxFailBatch), failing \in FailingLookups :
        /\ Len(tags) >= TagSlugAttemptLimit
              => (Len(batch) <= MaxFullStoreBatch /\ failing = {})
        /\ \E r \in {ProcessTagNamesWith(batch, tags, failing)} :
            /\ call' = [op |-> "ProcessTagNames", names |-> batch, before |-> Len(tags),
                        failing |-> failing]
            /\ ret' = [op |-> "ProcessTagNames", err |-> r.err, tag |-> r.tag,
                       cause |-> r.cause, list |-> r.list]
            /\ tags' = r.rows
    /\ UNCHANGED <<likes, articles, categories, now, pc, loc>>

NextTagFail == CallProcessFailing

SpecTagFail == InitTagFail /\ [][NextTagFail]_vars

\* C21: when a non-empty name of the batch cannot be resolved, ProcessTagNames
\* returns the error "failed to process tag" naming that tag and carrying the
\* cause, and no list; a successful result holds a tag for every non-empty
\* name of the batch
C21_FailedNameReported ==
    ret.op = "ProcessTagNames" =>
        /\ ret.err \in {"", "failed to process tag"}
        /\ ret.err # "" =>
              /\ ret.list = <<>>
              /\ ret.tag \in BatchTrimmed
              /\ ret.cause \in {"error checking existing tag", "failed to generate slug",
                                "failed to create tag"}
              /\ ret.cause = "error checking existing tag" <=> ret.tag \in call.failing
        /\ ret.err = "" =>
              \A name \in BatchTrimmed :
                  /\ name \notin call.failing
                  /\ GenerateSlug(name) # <<>>
                  /\ \E k \in 1..Len(ret.list) :
                        tags[ret.list[k]].name = name /\ ~tags[ret.list[k]].deleted

\* the second name of a batch failed after the first was created: its lookup
\* failed, its name is held by a soft-deleted row, or no slug was left
C21_Witness ==
    /\ ret.op = "ProcessTagNames"
    /\ ret.err = "failed to process tag"
    /\ Len(call.names) = 2
    /\ ret.tag = TrimSpace(call.names[2])
    /\ ret.tag # TrimSpace(call.names[1])
    /\ Len(tags) > call.before

C21_WitnessExhausted ==
    /\ ret.op = "ProcessTagNames"
    /\ ret.cause = "failed to generate slug"
    /\ ret.tag = <<"A">>
    /\ Len(tags) >= TagSlugAttemptLimit

C21_WitnessDuplicate ==
    /\ ret.op = "ProcessTagNames"
    /\ ret.cause = "failed to create tag"
    /\ ret.tag = <<"b">>

----------------------------------------------------------------------------
(* SpecViews: IncrementViewCount called with ids the store holds and ids it
   does not hold *)

\* most rows of the articles table, and most views counted by the calls
MaxViewArticles == 2
MaxViewCalls == 2

ViewRows ==
    {RankRow("published", <<v, 0, 0>>, <<0>>, d) : v \in InitialViews, d \in BOOLEAN}

\* the error of DB.Increment: the UPDATE ran, and an UPDATE matching no row
\* is no error
incrementErr(rows, id) == ""

InitViews ==
    /\ articles \in {RankStore(rows) : rows \in SeqsUpTo(ViewRows, MaxViewArticles)}
    /\ tags = <<>>
    /\ categories = <<>>
    /\ likes = <<>>
    /\ now = 0
    /\ call = NoCall
    /\ ret = NoRet
    /\ pc = NoProcs
    /\ loc = 0

\* ArticleService.IncrementViewCount
CallIncrementViewCount ==
    /\ loc < MaxViewCalls
    /\ \E id \in 0..(Len(articles) + 1) :
          /\ call' = [op |-> "IncrementViewCount", id |-> id,
                      missing |-> (GetByID(articles, id) = 0)]
          /\ ret' = [op |-> "IncrementViewCount", err |-> incrementErr(articles, id)]
          /\ articles' = IncrementViewCount(id, articles)
    /\ loc' = loc + 1
    /\ UNCHANGED <<likes, tags, categories, now, pc>>

NextViews == CallIncrementViewCount

SpecViews == InitViews /\ [][NextViews]_vars

\* C22: IncrementViewCount with an id for which the store holds no article
\* returns an error
C22_MissingArticleIsError ==
    (ret.op = "IncrementViewCount" /\ call.missing) => ret.err # ""

\* a call with such an id changes no row
MissingArticleChangesNothing ==
    [][call'.missing => articles' = articles]_vars

----------------------------------------------------------------------------
(* utils.GenerateJWT and utils.ValidateJWT. Time is counted in days. A token
   is the sequence of its three segments: header, payload, signature. *)

\* the lifetime of a token of GenerateJWT: 7 days
TokenLifetime == 7

NoClaims == [userID |-> 0]

\* the header and the payload as the token carries them (encoded JSON): a
\* sequence of name/value pairs
EncodeHeader(alg) == <<<<"alg", alg>>, <<"typ", "JWT">>>>

EncodeClaims(c) ==
    <<<<"user_id", c.userID>>, <<"username", c.username>>, <<"email", c.email>>,
      <<"exp", c.exp>>, <<"iat", c.iat>>>>

\* the value of a name in a decoded segment
FieldOf(segment, name) ==
    LET i == CHOOSE i \in 1..Len(segment) : segment[i][1] = name IN segment[i][2]

HasFields(segment, names) ==
    /\ \A i \in 1..Len(segment) : segment[i][1] \in names
    /\ \A n \in names : \E i \in 1..Len(segment) : segment[i][1] = n

DecodeClaims(payload) ==
    [userID |-> FieldOf(payload, "user_id"), username |-> FieldOf(payload, "username"),
     email |-> FieldOf(payload, "email"), exp |-> FieldOf(payload, "exp"),
     iat |-> FieldOf(payload, "iat")]

\* HMAC of the signing input under the key: equal for equal key and input only
SignHMAC(header, payload, secret) == [key |-> secret, header |-> header, payload |-> payload]

\* utils.GenerateJWT at time t
GenerateJWT(userID, username, email, secret, t) ==
    LET c == [userID |-> userID, username |-> username, email |-> email,
              exp |-> t + TokenLifetime, iat |-> t]
    IN  <<EncodeHeader("HS256"), EncodeClaims(c),
          SignHMAC(EncodeHeader("HS256"), EncodeClaims(c), secret)>>

\* the expiry check of the parser never failing
tokenExpired_Never(c, t) == FALSE

\* the expiry check of the parser: the token is valid while now is before exp
tokenExpired(c, t) == ~(t < c.exp)

MalformedSegments(token) ==
    \/ Len(token) # 3
    \/ ~HasFields(token[1], {"alg", "typ"})
    \/ ~HasFields(token[2], {"user_id", "username", "email", "exp", "iat"})

\* jwt.ParseWithClaims with the key function of ValidateJWT, then the checks
\* of ValidateJWT: [err, claims]
ValidateJWT(token, secret, t) ==
    IF MalformedSegments(token)
    THEN [err |-> "token is malformed", claims |-> NoClaims]
    ELSE IF FieldOf(token[1], "alg") \notin {"HS256", "HS384", "HS512"}
    THEN [err |-> "unexpected signing method", claims |-> NoClaims]
    ELSE IF token[3] # SignHMAC(token[1], token[2], secret)
    THEN [err |-> "signature is invalid", claims |-> NoClaims]
    ELSE IF tokenExpired(DecodeClaims(token[2]), t)
    THEN [err |-> "token is expired", claims |-> NoClaims]
    ELSE [err |-> "", claims |-> DecodeClaims(token[2])]

----------------------------------------------------------------------------
(* SpecJWT: tokens generated, time passing, tokens and forgeries validated *)

\* the last day, the last day on which a token is generated, and the most
\* tokens generated
MaxJwtNow == 8
MaxIssueDay == 1
MaxTokens == 1

JwtSecrets == {"secret", "wrong-secret"}

JwtUsers == {[userID |-> 1, username |-> "testuser", email |-> "test@example.com"],
             [userID |-> 2, username |-> "other", email |-> "other@example.com"]}

\* what is presented for a generated token tk: the token, the token with the
\* payload of another user, the token re-signed without a key, pieces of it,
\* and the empty string
Presented(tk) ==
    {tk,
     <<tk[1], EncodeClaims([DecodeClaims(tk[2]) EXCEPT !.userID = 3 - @]), tk[3]>>,
     <<tk[1], EncodeClaims([DecodeClaims(tk[2]) EXCEPT !.exp = @ + 1]), tk[3]>>,
     <<EncodeHeader("none"), tk[2], <<>>>>,
     <<tk[1], tk[2]>>,
     <<tk[1], <<<<"invalid-token", 0>>>>, tk[3]>>,
     <<>>}

InitJWT ==
    /\ articles = <<>>
    /\ tags = <<>>
    /\ categories = <<>>
    /\ likes = <<>>
    /\ now = 0
    /\ call = NoCall
    /\ ret = NoRet
    /\ pc = NoProcs
    /\ loc = <<>>

\* loc holds what was generated: the token and what was embedded in it
CallGenerateJWT ==
    /\ Len(loc) < MaxTokens
    /\ now <= MaxIssueDay
    /\ \E u \in JwtUsers, secret \in JwtSecrets :
        \E tk \in {GenerateJWT(u.userID, u.username, u.email, secret, now)} :
          /\ loc' = Append(loc, [token |-> tk, user |-> u, secret |-> secret, at |-> now])
          /\ call' = [op |-> "GenerateJWT"]
          /\ ret' = [op |-> "GenerateJWT", err |-> ""]
    /\ UNCHANGED <<likes, articles, tags, categories, now, pc>>

JwtTick ==
    /\ now < MaxJwtNow
    /\ now' = now + 1
    /\ UNCHANGED <<likes, articles, tags, categories, call, ret, pc, loc>>

CallValidateJWT ==
    /\ \E i \in 1..Len(loc), secret \in JwtSecrets :
        \E tk \in Presented(loc[i].token) :
          \E r \in {ValidateJWT(tk, secret, now)} :
            /\ call' = [op |-> "ValidateJWT", issue |-> i, token |-> tk, secret |-> secret,
                        at |-> now]
            /\ ret' = [op |-> "ValidateJWT", err |-> r.err, claims |-> r.claims]
    /\ UNCHANGED <<likes, articles, tags, categories, now, pc, loc>>

NextJWT == CallGenerateJWT \/ JwtTick \/ CallValidateJWT

SpecJWT == InitJWT /\ [][NextJWT]_vars

\* the call presents a generated token, with the secret it was signed with,
\* before the end of its lifetime
GenuineAndFresh ==
    /\ call.token = loc[call.issue].token
    /\ call.secret = loc[call.issue].secret
    /\ call.at < loc[call.issue].at + TokenLifetime

\* C23: ValidateJWT returns the user id, the username and the email embedded
\* at generation exactly when the token is a generated one, presented with
\* the secret that signed it and not expired; in every other case (another
\* secret, an expired token, a malformed or changed token, an empty token) it
\* returns an error and no claims
C23_ClaimsExactlyWhenGenuine ==
    ret.op = "ValidateJWT" =>
        IF GenuineAndFresh
        THEN /\ ret.err = ""
             /\ ret.claims.userID = loc[call.issue].user.userID
             /\ ret.claims.username = loc[call.issue].user.username
             /\ ret.claims.email = loc[call.issue].user.email
        ELSE ret.err # "" /\ ret.claims = NoClaims

\* a token accepted on the last day of its lifetime, and refused a day later
C23_Witness ==
    /\ ret.op = "ValidateJWT"
    /\ ret.err = ""
    /\ call.at = loc[call.issue].at + TokenLifetime - 1

C23_WitnessExpired ==
    /\ ret.op = "ValidateJWT"
    /\ ret.err = "token is expired"
    /\ call.at = loc[call.issue].at + TokenLifetime

----------------------------------------------------------------------------
(* LikeService.ToggleLike, likeRepository, Like.BeforeCreate *)

\* models.Like
NewLike(userID, articleID) == [userID |-> userID, articleID |-> articleID, deleted |-> FALSE]

\* the likes of the pair a query sees
activeLikes(rows, userID, articleID) ==
    {i \in 1..Len(rows) : /\ rows[i].userID = userID
                          /\ rows[i].articleID = articleID
                          /\ ~rows[i].deleted}

\* likeRepository.GetByUserAndArticle: 0 stands for gorm.ErrRecordNotFound
LikeGetByUserAndArticle(rows, userID, articleID) ==
    IF activeLikes(rows, userID, articleID) = {} THEN 0
    ELSE CHOOSE i \in activeLikes(rows, userID, articleID) :
            \A j \in activeLikes(rows, userID, articleID) : i <= j

\* the query of the Like.BeforeCreate hook: "" when it lets the insert go on
LikeBeforeCreate(rows, like) ==
    IF like.userID = 0 THEN "user ID is required"
    ELSE IF like.articleID = 0 THEN "article ID is required"
    ELSE IF activeLikes(rows, like.userID, like.articleID) # {}
    THEN "user has already liked this article"
    ELSE ""

\* the INSERT of likeRepository.Create: the likes table has no unique index
LikeInsert(rows, like) == Append(rows, like)

\* likeRepository.Delete: DB.BulkDelete marks every like of the pair
LikeRepoDelete(rows, userID, articleID) ==
    [i \in 1..Len(rows) |->
        IF i \in activeLikes(rows, userID, articleID)
        THEN [rows[i] EXCEPT !.deleted = TRUE] ELSE rows[i]]

\* likeRepository.CountByArticle, behind LikeService.GetLikeCount
GetLikeCount(rows, articleID) ==
    Cardinality({i \in 1..Len(rows) : rows[i].articleID = articleID /\ ~rows[i].deleted})

\* the first steps of ToggleLike: the user and the article are read
likeVerify(userID, articleID, arts) ==
    IF userID \notin Users THEN "user not found"
    ELSE IF GetByID(arts, articleID) = 0 THEN "article not found"
    ELSE ""

----------------------------------------------------------------------------
(* SpecLikes: ToggleLike calls of several requests, one statement at a step *)

\* requests in flight, calls made in all, rows of the articles table
MaxLikeProcs == 2
MaxLikeCalls == 3
MaxLikeArticles == 1

LikeProcs == 1..MaxLikeProcs

\* the users calling: the registered ones and one who is not
LikeCallers == Users \cup {3}

LikeIdle == [userID |-> 0, articleID |-> 0]

InitLikes ==
    /\ articles \in {RankStore(rows) :
                        rows \in {[i \in 1..n |-> RankRow("published", <<0, 0, 0>>, <<0>>, FALSE)] :
                                     n \in 1..MaxLikeArticles}}
    /\ tags = <<>>
    /\ categories = <<>>
    /\ likes = <<>>
    /\ now = 0
    /\ call = [op |-> "ToggleLike", calls |-> 0]
    /\ ret = NoRet
    /\ pc = [p \in LikeProcs |-> "idle"]
    /\ loc = [p \in LikeProcs |-> LikeIdle]

\* the end of a call
LikeReturn(p, err, liked) ==
    /\ pc' = [pc EXCEPT ![p] = "idle"]
    /\ loc' = [loc EXCEPT ![p] = LikeIdle]
    /\ ret' = [op |-> "ToggleLike", err |-> err, liked |-> liked,
               userID |-> loc[p].userID, articleID |-> loc[p].articleID]

\* userRepo.GetByID and articleRepo.GetByID
LikeVerify(p) ==
    /\ pc[p] = "idle"
    /\ call.calls < MaxLikeCalls
    /\ call' = [call EXCEPT !.calls = @ + 1]
    /\ \E userID \in LikeCallers, articleID \in 1..(Len(articles) + 1) :
        IF likeVerify(userID, articleID, articles) # ""
        THEN /\ ret' = [op |-> "ToggleLike", err |-> likeVerify(userID, articleID, articles),
                        liked |-> FALSE, userID |-> userID, articleID |-> articleID]
             /\ UNCHANGED <<pc, loc>>
        ELSE /\ pc' = [pc EXCEPT ![p] = "lookup"]
             /\ loc' = [loc EXCEPT ![p] = [userID |-> userID, articleID |-> articleID]]
             /\ ret' = ret
    /\ UNCHANGED <<articles, tags, categories, likes, now>>

\* likeRepo.GetByUserAndArticle
LikeLookup(p) ==
    /\ pc[p] = "lookup"
    /\ pc' = [pc EXCEPT ![p] =
                IF LikeGetByUserAndArticle(likes, loc[p].userID, loc[p].articleID) # 0
                THEN "delete" ELSE "hook"]
    /\ UNCHANGED <<articles, tags, categories, likes, now, call, ret, loc>>

\* likeRepo.Delete
LikeDelete(p) ==
    /\ pc[p] = "delete"
    /\ likes' = LikeRepoDelete(likes, loc[p].userID, loc[p].articleID)
    /\ LikeReturn(p, "", FALSE)
    /\ UNCHANGED <<articles, tags, categories, now, call>>

\* likeRepo.Create: the BeforeCreate hook
LikeHook(p) ==
    /\ pc[p] = "hook"
    /\ \E err \in {LikeBeforeCreate(likes, NewLike(loc[p].userID, loc[p].articleID))} :
        IF err # ""
        THEN LikeReturn(p, err, FALSE)
        ELSE /\ pc' = [pc EXCEPT ![p] = "insert"]
             /\ UNCHANGED <<ret, loc>>
    /\ UNCHANGED <<articles, tags, categories, likes, now, call>>

\* likeRepo.Create: the INSERT
LikeCreate(p) ==
    /\ pc[p] = "insert"
    /\ likes' = LikeInsert(likes, NewLike(loc[p].userID, loc[p].articleID))
    /\ LikeReturn(p, "", TRUE)
    /\ UNCHANGED <<articles, tags, categories, now, call>>

NextLikes ==
    \E p \in LikeProcs :
        LikeVerify(p) \/ LikeLookup(p) \/ LikeDelete(p) \/ LikeHook(p) \/ LikeCreate(p)

SpecLikes == InitLikes /\ [][NextLikes]_vars

\* C24: under every interleaving of ToggleLike calls the likes table holds at
\* most one like that is not deleted for a user and an article
C24_OneActiveLikePerPair ==
    \A userID \in LikeCallers, articleID \in 1..Len(articles) :
        Cardinality(activeLikes(likes, userID, articleID)) <= 1

\* C29: between ToggleLike calls the LikeCount of an article is the number
\* of its likes as GetLikeCount returns it
C29_LikeCountIsNumberOfLikes ==
    (\A p \in LikeProcs : pc[p] = "idle") =>
        \A articleID \in 1..Len(articles) :
            articles[articleID].likeCount = GetLikeCount(likes, articleID)

----------------------------------------------------------------------------
(* C25: the order of entries that score the same, on SpecRank *)

\* the place of an article among the candidates the repository delivered
FetchedPlace(limit, id) ==
    CHOOSE k \in 1..Len(ListPublished(articles, limit * 2)) :
        ListPublished(articles, limit * 2)[k] = id

\* C25: GetPopularArticles returns fetched articles of equal popularity score
\* in the relative order in which the repository delivered them
C25_EqualScoresKeepFetchedOrder ==
    ret.op = "GetPopularArticles" =>
        \A k \in 1..Len(ret.list) : \A m \in (k + 1)..Len(ret.list) :
            ret.list[k].score = ret.list[m].score =>
                FetchedPlace(rankLimit(call.limit), ret.list[k].id)
                    < FetchedPlace(rankLimit(call.limit), ret.list[m].id)

\* entries of equal score keep their order when no fetched entry after them
\* scores more
C25_OrderKeptWithoutLaterBetter ==
    (/\ ret.op = "GetPopularArticles"
     /\ \A c \in FetchedIds(rankLimit(call.limit)), d \in FetchedIds(rankLimit(call.limit)) :
            FetchedPlace(rankLimit(call.limit), c) < FetchedPlace(rankLimit(call.limit), d)
                => popularityScore(articles[c]) >= popularityScore(articles[d]))
    => \A k \in 1..Len(ret.list) :
          ret.list[k].id = ListPublished(articles, rankLimit(call.limit) * 2)[k]

----------------------------------------------------------------------------
(* C26: the most active year and month, on SpecArchive *)

\* published articles of a year, and of a month of a year
ArticlesOfYear(year) ==
    Cardinality({i \in archiveRows(articles) : YearOf(articles[i].publishedAt[1]) = year})

ArticlesOfMonth(t) ==
    Cardinality({i \in archiveRows(articles) : articles[i].publishedAt[1] = t})

ArchivedTimes == {articles[i].publishedAt[1] : i \in archiveRows(articles)}

ArchivedYears == {YearOf(t) : t \in ArchivedTimes}

\* C26: most_active_year is the most recent of the years with the greatest
\* total, most_active_month the most recent of the months with the greatest
\* count
C26_MostRecentAmongTied ==
    (ret.op = "GetArchiveStatistics" /\ ret.err = "" /\ ArchivedTimes # {}) =>
        /\ Len(ret.mostActiveYear) = 1
        /\ Len(ret.mostActiveMonth) = 1
        /\ \A y \in ArchivedYears :
              \/ ArticlesOfYear(y) < ret.mostActiveYear[1].count
              \/ ArticlesOfYear(y) = ret.mostActiveYear[1].count
                   /\ y <= ret.mostActiveYear[1].year
        /\ \A t \in ArchivedTimes :
              \/ ArticlesOfMonth(t) < ret.mostActiveMonth[1].count
              \/ ArticlesOfMonth(t) = ret.mostActiveMonth[1].count
                   /\ t <= ret.mostActiveMonth[1].year * MonthsPerYear
                           + ret.mostActiveMonth[1].month - 1

\* the year and the month reported are ones with the greatest total and count
C26_MostActiveIsMaximal ==
    (ret.op = "GetArchiveStatistics" /\ ret.err = "" /\ ArchivedTimes # {}) =>
        /\ Len(ret.mostActiveYear) = 1
        /\ Len(ret.mostActiveMonth) = 1
        /\ ret.mostActiveYear[1].year \in ArchivedYears
        /\ ret.mostActiveYear[1].count = ArticlesOfYear(ret.mostActiveYear[1].year)
        /\ \A y \in ArchivedYears : ArticlesOfYear(y) <= ret.mostActiveYear[1].count
        /\ \A t \in ArchivedTimes : ArticlesOfMonth(t) <= ret.mostActiveMonth[1].count

----------------------------------------------------------------------------
(* C27: the query handed to the article repository, on SpecSearch *)

\* C27: Search never calls the repository with an empty query: the query
\* passed to AdvancedSearch or SearchWithBoolean is not empty
C27_RepositoryQueryNotEmpty ==
    (ret.op = "Search" /\ ret.fn # "none") => ret.repoQuery # <<>>

\* the query passed to AdvancedSearch is the sanitized query, which is not
\* empty
C27_NaturalQueryNotEmpty ==
    (ret.op = "Search" /\ ret.fn = "AdvancedSearch") =>
        /\ ret.repoQuery = sanitizeQuery(call.query)
        /\ ret.repoQuery # <<>>

----------------------------------------------------------------------------
(* SpecFrame: Update applied to articles that carry an excerpt, a category
   and tags *)

\* most rows of the articles table
MaxFrameArticles == 1

FrameRow(status, excerpt, category, tagIds) ==
    [NewArticle(<<"a">>, <<"a">>, 1, status,
                IF status = "published" THEN <<0>> ELSE NoTime)
     EXCEPT !.excerpt = excerpt, !.category = category, !.tagIds = tagIds]

FrameRows ==
    {FrameRow(status, excerpt, category, tagIds) :
        status \in {"draft", "published"}, excerpt \in {<<>>, <<"a">>},
        category \in {0, 1}, tagIds \in {<<>>, <<1>>}}

\* requests: the fields a request may carry, each one given or left out
FrameRequests ==
    {[title |-> title, content |-> content, excerpt |-> excerpt, category |-> category,
      hasTags |-> hasTags, tagNames |-> IF hasTags THEN <<<<"b">>>> ELSE <<>>,
      status |-> status] :
        title \in {<<>>, <<"b">>}, content \in {<<>>, <<"b">>},
        excerpt \in {<<>>, <<"b">>}, category \in {-1, 0, 1},
        hasTags \in BOOLEAN, status \in {"", "draft", "published", "archived"}}

InitFrame ==
    /\ articles \in {RankStore(rows) :
                        rows \in {[i \in 1..n |-> r] : n \in 1..MaxFrameArticles, r \in FrameRows}}
    /\ tags = <<NewTag(<<"a">>, <<"a">>)>>
    /\ categories = <<NewCategory(<<"a">>)>>
    /\ likes = <<>>
    /\ now = 1
    /\ call = NoCall
    /\ ret = NoRet
    /\ pc = NoProcs
    /\ loc = NoProcs

\* one Update by the author; the call keeps the article as it was stored
FrameUpdate ==
    /\ call = NoCall
    /\ \E id \in 1..Len(articles), req \in FrameRequests :
        \E o \in {Update(id, 1, req, articles, tags, categories, now)} :
            /\ articles' = o.articles
            /\ tags' = o.tags
            /\ call' = [op |-> "Update", id |-> id, req |-> req, before |-> articles[id]]
            /\ ret' = Returned("Update", o)
    /\ UNCHANGED <<likes, categories, now, pc, loc>>

NextFrame == FrameUpdate

SpecFrame == InitFrame /\ [][NextFrame]_vars

\* a request that carries a status change and nothing else
StatusOnly(req) ==
    /\ req.title = <<>>
    /\ req.content = <<>>
    /\ req.excerpt = <<>>
    /\ req.category = -1
    /\ ~req.hasTags
    /\ req.status # ""

\* C28: an Update whose request carries only a status change leaves the
\* stored title, slug, content, excerpt, category and tags as they were
C28_StatusOnlyKeepsOtherFields ==
    (call.op = "Update" /\ ret.err = "" /\ StatusOnly(call.req)) =>
        /\ articles[call.id].title = call.before.title
        /\ articles[call.id].slug = call.before.slug
        /\ articles[call.id].content = call.before.content
        /\ articles[call.id].excerpt = call.before.excerpt
        /\ articles[call.id].category = call.before.category
        /\ articles[call.id].tagIds = call.before.tagIds

\* the same without the excerpt: the other fields named are kept
C28_StatusOnlyKeepsAllButExcerpt ==
    (call.op = "Update" /\ ret.err = "" /\ StatusOnly(call.req)) =>
        /\ articles[call.id].title = call.before.title
        /\ articles[call.id].slug = call.before.slug
        /\ articles[call.id].content = call.before.content
        /\ articles[call.id].category = call.before.category
        /\ articles[call.id].tagIds = call.before.tagIds

----------------------------------------------------------------------------
(* SpecCatRace: CategoryService.Delete beside ArticleService.Create and
   Update assigning the category. Delete reads the articles once, when it
   counts them; Create and Update read the categories once, when they look
   the category up. A step is one of these reads or the write that ends the
   call, which acts on what the read saw. *)

\* writes by the article service, and deletions, in one behaviour
MaxRaceWrites == 2
MaxRaceDeletes == 1

RaceRequests ==
    {[op |-> "Create", id |-> 0, authorID |-> 1,
      req |-> [CreateRequest(title, status) EXCEPT !.category = 1]] :
        title \in {<<"a">>, <<"b">>}, status \in {"", "published"}}
    \cup {[op |-> "Update", id |-> 1, authorID |-> 1,
           req |-> [UpdateRequest(<<>>, status) EXCEPT !.category = category]] :
             status \in {"", "published"}, category \in {0, 1}}

RaceIdle == [op |-> "none"]

InitCatRace ==
    /\ articles \in {<<>>, RankStore(<<FrameRow("draft", <<>>, 0, <<>>)>>),
                     RankStore(<<FrameRow("draft", <<>>, 1, <<>>)>>)}
    /\ tags = <<>>
    /\ categories = <<NewCategory(<<"a">>)>>
    /\ likes = <<>>
    /\ now = 1
    /\ call = [op |-> "race", writes |-> 0, deletes |-> 0]
    /\ ret = NoRet
    /\ pc = [write |-> "idle", delete |-> "idle"]
    /\ loc = [write |-> RaceIdle, delete |-> <<>>]

\* Create or Update up to categoryRepo.GetByID: the categories it sees
RaceWriteLookup ==
    /\ pc.write = "idle"
    /\ call.writes < MaxRaceWrites
    /\ \E r \in RaceRequests :
          /\ r.op = "Update" => r.id \in 1..Len(articles)
          /\ loc' = [loc EXCEPT !.write = [op |-> r.op, id |-> r.id, authorID |-> r.authorID,
                                           req |-> r.req, categories |-> categories]]
    /\ pc' = [pc EXCEPT !.write = "looked"]
    /\ call' = [call EXCEPT !.writes = @ + 1]
    /\ UNCHANGED <<likes, articles, tags, categories, now, ret>>

\* the rest of Create or Update: articleRepo.Create or articleRepo.Update
RaceWriteSave ==
    /\ pc.write = "looked"
    /\ \E o \in {IF loc.write.op = "Create"
                 THEN Create(loc.write.authorID, loc.write.req, articles, tags,
                             loc.write.categories, now)
                 ELSE Update(loc.write.id, loc.write.authorID, loc.write.req, articles, tags,
                             loc.write.categories, now)} :
          /\ articles' = o.articles
          /\ tags' = o.tags
          /\ ret' = Returned(loc.write.op, o)
    /\ pc' = [pc EXCEPT !.write = "idle"]
    /\ loc' = [loc EXCEPT !.write = RaceIdle]
    /\ UNCHANGED <<likes, categories, now, call>>

\* Delete up to categoryRepo.GetArticles: the articles it counts
RaceDeleteCount ==
    /\ pc.delete = "idle"
    /\ call.deletes < MaxRaceDeletes
    /\ pc' = [pc EXCEPT !.delete = "counted"]
    /\ loc' = [loc EXCEPT !.delete = articles]
    /\ call' = [call EXCEPT !.deletes = @ + 1]
    /\ UNCHANGED <<likes, articles, tags, categories, now, ret>>

\* the rest of Delete: the test of the count and categoryRepo.Delete
RaceDeleteSave ==
    /\ pc.delete = "counted"
    /\ \E o \in {CategoryDelete(1, categories, loc.delete, "")} :
          /\ categories' = o.categories
          /\ ret' = [op |-> "CategoryDelete", err |-> o.err, cause |-> "", slug |-> <<>>]
    /\ pc' = [pc EXCEPT !.delete = "idle"]
    /\ loc' = [loc EXCEPT !.delete = <<>>]
    /\ UNCHANGED <<likes, articles, tags, now, call>>

NextCatRace == RaceWriteLookup \/ RaceWriteSave \/ RaceDeleteCount \/ RaceDeleteSave

SpecCatRace == InitCatRace /\ [][NextCatRace]_vars

\* C30: whatever the interleaving of Delete with a Create or Update that
\* assigns the category, no article that is not deleted references a deleted
\* category
C30_NoArticleInDeletedCategory ==
    \A i \in Visible(articles) :
        articles[i].category # 0 => CatGetByID(categories, articles[i].category) # 0

\* the invariant is broken only by the write of a call whose read is out of
\* date: a save after the category was deleted, or a deletion after an
\* article was given the category
C30_BrokenOnlyByStaleRead ==
    [][(C30_NoArticleInDeletedCategory /\ ~C30_NoArticleInDeletedCategory')
        => \/ pc.write = "looked" /\ loc.write.categories # categories
           \/ pc.delete = "counted" /\ loc.delete # articles]_vars
====
